---------------------------- MODULE Spec2Model ----------------------------
(***************************************************************************)
(* A model of the CHIP-8 interpreter of src/src/chip8.rs (struct Chip8,    *)
(* its host-facing operations load_rom, decrement_timers, set_keys, tick   *)
(* and every opcode handler) driven the way src/src/main.rs drives it.     *)
(*                                                                         *)
(* A Rust panic is fatal for the process: the model records it in `fault`  *)
(* together with the machine as the panic left it, and nothing runs after. *)
(***************************************************************************)
EXTENDS Integers, Sequences, FiniteSets, TLC

VARIABLES
    state,          \* Emulator.state: the Chip8 machine, a record of its fields
    fault,          \* "none", or the panic that ended the process
    phase,          \* "init" after Chip8::init(), "loaded" after load_rom
    rom_file,       \* the bytes of the file at the path given to load_rom
    call,           \* history: the last host call and what the machine was before it
    call_sites,     \* history: addresses of the CALLs executed and not yet returned from
    opcode,         \* decoder check: the word handed to OpCodeSymbols::from_value
    opcode_symbols, \* decoder check: the symbols it returned ("none" before the call)
    saved_state,    \* Emulator.saved_state (main.rs): << >> for None, << m >> for Some(m)
    saved_at,       \* history: the machine at the moment of the last save (<< >>: none yet)
    is_paused,      \* Emulator.is_paused (main.rs)
    audio_paused,   \* Audio.sink.is_paused(): the tone is not playing
    states          \* Emulator.states (emulator.rs): the history buffer

\* The variables of the emulators around the machine.
host == <<saved_state, saved_at, is_paused, audio_paused, states>>

vars ==
    <<state, fault, phase, rom_file, call, call_sites, opcode, opcode_symbols,
      saved_state, saved_at, is_paused, audio_paused, states>>

\* Emulator::init (main.rs): nothing saved, paused, the tone created paused;
\* Emulator::init (emulator.rs): an empty history buffer.
HostInit ==
    /\ saved_state = << >>
    /\ saved_at = << >>
    /\ is_paused = TRUE
    /\ audio_paused = TRUE
    /\ states = << >>

----------------------------------------------------------------------------
(* Bounds of the model.                                                    *)

\* tick() is called while cycle < MaxCycle.
MaxCycle == 36

----------------------------------------------------------------------------
(* Program constants.                                                      *)

MEMORY_SIZE == 4096
DISPLAY_SIZE == 2048
DISPLAY_WIDTH == 64
NUM_REGISTERS == 16
NUM_KEYS == 16
STACK_SIZE == 16
ADDRESS_FONT == 80
ADDRESS_ROM == 512
OPCODE_SIZE == 2

\* usize::MAX, the value `0usize - 1` wraps to in a build without overflow
\* checks.  It is 2^64 - 1 on the 64-bit targets and 2^32 - 1 on the 32-bit
\* ones; TLC's integers stop at 2^31 - 1, which stands for it here.  The model
\* never computes with it: it only is a stack_pointer outside 0..16.
USIZE_MAX == 2147483647

FONT ==
    << \hF0, \h90, \h90, \h90, \hF0,
       \h20, \h60, \h20, \h20, \h70,
       \hF0, \h10, \hF0, \h80, \hF0,
       \hF0, \h10, \hF0, \h10, \hF0,
       \h90, \h90, \hF0, \h10, \h10,
       \hF0, \h80, \hF0, \h10, \hF0,
       \hF0, \h80, \hF0, \h90, \hF0,
       \hF0, \h10, \h20, \h40, \h40,
       \hF0, \h90, \hF0, \h90, \hF0,
       \hF0, \h90, \hF0, \h10, \hF0,
       \hF0, \h90, \hF0, \h90, \h90,
       \hE0, \h90, \hE0, \h90, \hE0,
       \hF0, \h80, \h80, \h80, \hF0,
       \hE0, \h90, \h90, \h90, \hE0,
       \hF0, \h80, \hF0, \h80, \hF0,
       \hF0, \h80, \hF0, \h80, \h80 >>

----------------------------------------------------------------------------
(* Bit operations on naturals, as Rust's &, |, ^ and >> compute them.      *)

RECURSIVE BitAnd(_, _)
BitAnd(a, b) ==
    IF a = 0 \/ b = 0 THEN 0
    ELSE (a % 2) * (b % 2) + 2 * BitAnd(a \div 2, b \div 2)

RECURSIVE BitOr(_, _)
BitOr(a, b) ==
    IF a = 0 THEN b
    ELSE IF b = 0 THEN a
    ELSE (IF a % 2 = 1 \/ b % 2 = 1 THEN 1 ELSE 0) + 2 * BitOr(a \div 2, b \div 2)

RECURSIVE BitXor(_, _)
BitXor(a, b) ==
    IF a = 0 THEN b
    ELSE IF b = 0 THEN a
    ELSE (((a % 2) + (b % 2)) % 2) + 2 * BitXor(a \div 2, b \div 2)

RECURSIVE Shr(_, _)
Shr(a, k) == IF k = 0 THEN a ELSE Shr(a \div 2, k - 1)

RECURSIVE Shl(_, _)
Shl(a, k) == IF k = 0 THEN a ELSE Shl(a * 2, k - 1)

----------------------------------------------------------------------------
(* OpCodeSymbols::from_value                                               *)

\* Mutant: x is masked and not shifted down.
from_value_x_unshifted(w) ==
    [ a   |-> Shr(BitAnd(w, \hF000), 12),
      x   |-> BitAnd(w, \h0F00),
      y   |-> Shr(BitAnd(w, \h00F0), 4),
      n   |-> BitAnd(w, \h000F),
      nn  |-> BitAnd(w, \h00FF),
      nnn |-> BitAnd(w, \h0FFF) ]

from_value(w) ==
    [ a   |-> Shr(BitAnd(w, \hF000), 12),
      x   |-> Shr(BitAnd(w, \h0F00), 8),
      y   |-> Shr(BitAnd(w, \h00F0), 4),
      n   |-> BitAnd(w, \h000F),
      nn  |-> BitAnd(w, \h00FF),
      nnn |-> BitAnd(w, \h0FFF) ]

----------------------------------------------------------------------------
(* Chip8::init                                                             *)

Chip8Init ==
    [ cycle               |-> 0,
      delay_timer         |-> 0,
      graphics_buffer     |-> [i \in 0..(DISPLAY_SIZE - 1) |-> FALSE],
      has_graphics_update |-> FALSE,
      index_register      |-> 0,
      keyd_register       |-> 0,
      keys                |-> [k \in 0..(NUM_KEYS - 1) |-> FALSE],
      last_opcode         |-> 0,
      memory              |-> [i \in 0..(MEMORY_SIZE - 1) |->
                                  IF i >= ADDRESS_FONT /\ i < ADDRESS_FONT + Len(FONT)
                                  THEN FONT[i - ADDRESS_FONT + 1] ELSE 0],
      program_counter     |-> ADDRESS_ROM,
      registers           |-> [r \in 0..(NUM_REGISTERS - 1) |-> 0],
      rom_size            |-> 0,
      sound_timer         |-> 0,
      stack_pointer       |-> 0,
      stack               |-> [i \in 0..(STACK_SIZE - 1) |-> 0],
      wait_for_input      |-> FALSE ]

----------------------------------------------------------------------------
(* Outcomes of a piece of code: the machine it leaves and the panic, if    *)
(* any, it ended with.                                                     *)

Ok(m) == [m |-> m, fault |-> "none"]
Panic(m, what) == [m |-> m, fault |-> what]


\* The panics of the program, by their messages.
SUBTRACT_OVERFLOW == "attempt to subtract with overflow"
INDEX_OUT_OF_BOUNDS == "index out of bounds"
SYS_NOT_IMPLEMENTED == "opcode SYS not implemented"
NOT_HANDLED == "Tried to call but is not handled"
NOT_IMPLEMENTED == "Not implemented"
LOAD_UNWRAP == "called Result::unwrap() on an Err value"

VF == 15

----------------------------------------------------------------------------
(* Opcode implementation.  Each handler gives the set of outcomes the code *)
(* can produce from machine m.                                             *)

\* Mutant: CLEAR leaves the update flag alone.
CLR_without_update(m) ==
    {Ok([m EXCEPT !.graphics_buffer = [i \in 0..(DISPLAY_SIZE - 1) |-> FALSE]])}

CLR(m) ==
    {Ok([m EXCEPT !.graphics_buffer = [i \in 0..(DISPLAY_SIZE - 1) |-> FALSE],
                  !.has_graphics_update = TRUE])}

\* `stack_pointer -= 1` at 0 panics in a build with overflow checks (the debug
\* profile) and wraps to usize::MAX in one without (the release profile), where
\* the stack index of the next line then panics.
RTS(m) ==
    IF m.stack_pointer = 0
    THEN {Panic(m, SUBTRACT_OVERFLOW),
          Panic([m EXCEPT !.stack_pointer = USIZE_MAX], INDEX_OUT_OF_BOUNDS)}
    ELSE LET sp == m.stack_pointer - 1 IN
         IF sp >= STACK_SIZE
         THEN {Panic([m EXCEPT !.stack_pointer = sp], INDEX_OUT_OF_BOUNDS)}
         ELSE {Ok([m EXCEPT !.stack_pointer = sp,
                            !.program_counter = m.stack[sp]])}

\* Mutant: SYS is skipped as a no-op.
SYS_ignored(m, nnn) == {Ok(m)}

SYS(m, nnn) == {Panic(m, SYS_NOT_IMPLEMENTED)}

JUMP(m, nnn) == {Ok([m EXCEPT !.program_counter = nnn])}

\* Mutant: CALL saves the address it jumps to.
CALL_saving_target(m, nnn) ==
    IF m.stack_pointer >= STACK_SIZE
    THEN {Panic(m, INDEX_OUT_OF_BOUNDS)}
    ELSE {Ok([m EXCEPT !.stack[m.stack_pointer] = nnn,
                       !.stack_pointer = m.stack_pointer + 1,
                       !.program_counter = nnn])}

CALL(m, nnn) ==
    IF m.stack_pointer >= STACK_SIZE
    THEN {Panic(m, INDEX_OUT_OF_BOUNDS)}
    ELSE {Ok([m EXCEPT !.stack[m.stack_pointer] = m.program_counter,
                       !.stack_pointer = m.stack_pointer + 1,
                       !.program_counter = nnn])}

SKE(m, x, nn) ==
    {Ok(IF m.registers[x] = nn
        THEN [m EXCEPT !.program_counter = @ + OPCODE_SIZE] ELSE m)}

SKNE(m, x, nn) ==
    {Ok(IF m.registers[x] # nn
        THEN [m EXCEPT !.program_counter = @ + OPCODE_SIZE] ELSE m)}

SKRE(m, x, y) ==
    {Ok(IF m.registers[x] = m.registers[y]
        THEN [m EXCEPT !.program_counter = @ + OPCODE_SIZE] ELSE m)}

LOAD(m, x, nn) == {Ok([m EXCEPT !.registers[x] = nn])}

\* Mutant: ADD keeps the sum as it is.
ADD_unwrapped(m, x, nn) == {Ok([m EXCEPT !.registers[x] = m.registers[x] + nn])}

ADD(m, x, nn) == {Ok([m EXCEPT !.registers[x] = (m.registers[x] + nn) % \h100])}

MOVE(m, x, y) == {Ok([m EXCEPT !.registers[x] = m.registers[y]])}

OR(m, x, y) ==
    {Ok([m EXCEPT !.registers[x] = BitOr(m.registers[x], m.registers[y])])}

AND(m, x, y) ==
    {Ok([m EXCEPT !.registers[x] = BitAnd(m.registers[x], m.registers[y])])}

XOR(m, x, y) ==
    {Ok([m EXCEPT !.registers[x] = BitXor(m.registers[x], m.registers[y])])}

ADDR(m, x, y) ==
    LET vx == m.registers[x]
        vy == m.registers[y]
        m1 == [m EXCEPT !.registers[VF] = IF vx + vy > \hFF THEN 1 ELSE 0]
    IN  {Ok([m1 EXCEPT !.registers[x] = (vx + vy) % \h100])}

\* Mutant: SUB raises VF when Vx = Vy too.
SUB_flag_on_equal(m, x, y) ==
    LET vx == m.registers[x]
        vy == m.registers[y]
        m1 == [m EXCEPT !.registers[x] = ((vx % 256) - (vy % 256) + 256) % 256]
    IN  {Ok([m1 EXCEPT !.registers[VF] = IF vx >= vy THEN 1 ELSE 0])}

\* (vx as u8).wrapping_sub(vy as u8) as usize
SUB(m, x, y) ==
    LET vx == m.registers[x]
        vy == m.registers[y]
        m1 == [m EXCEPT !.registers[x] = ((vx % 256) - (vy % 256) + 256) % 256]
    IN  {Ok([m1 EXCEPT !.registers[VF] = IF vx > vy THEN 1 ELSE 0])}

SHR(m, x, y) ==
    LET vx == m.registers[x]
        m1 == [m EXCEPT !.registers[VF] = BitAnd(vx, 1)]
    IN  {Ok([m1 EXCEPT !.registers[x] = Shr(vx, 1)])}

\* not_implemented()
SUBN(m, x, y) == {Panic(m, NOT_IMPLEMENTED)}

SHL(m, x, y) ==
    LET vx == m.registers[x]
        m1 == [m EXCEPT !.registers[VF] = Shr(BitAnd(vx, \h80), 7)]
    IN  {Ok([m1 EXCEPT !.registers[x] = BitAnd(Shl(vx, 1), \hFF)])}

SKRNE(m, x, y) ==
    {Ok(IF m.registers[x] # m.registers[y]
        THEN [m EXCEPT !.program_counter = @ + OPCODE_SIZE] ELSE m)}

LOADI(m, nnn) == {Ok([m EXCEPT !.index_register = nnn])}

\* Mutant: JUMPI goes to nnn whatever V0 holds.
JUMPI_without_V0(m, nnn) == {Ok([m EXCEPT !.program_counter = nnn])}

JUMPI(m, nnn) == {Ok([m EXCEPT !.program_counter = m.registers[0] + nnn])}

\* gen_range(0, 255) draws from the half-open range [0, 255).
RAND(m, x, nn) == {Ok([m EXCEPT !.registers[x] = BitAnd(r, nn)]) : r \in 0..254}

\* Mutant: a set sprite bit switches its cell on instead of toggling it.
RECURSIVE DrawFrom_or(_, _, _, _, _)
DrawFrom_or(m, vx, vy, n, p) ==
    IF p >= 8 * n
    THEN Ok([m EXCEPT !.has_graphics_update = TRUE])
    ELSE LET row == p \div 8
             col == p % 8
             pixels == m.memory[m.index_register + row]
         IN  IF BitAnd(pixels, Shr(\h80, col)) > 0
             THEN LET idx == vx + col + ((vy + row) * DISPLAY_WIDTH) IN
                  IF idx >= DISPLAY_SIZE
                  THEN Panic(m, INDEX_OUT_OF_BOUNDS)
                  ELSE LET current_pixel == m.graphics_buffer[idx]
                           m1 == [m EXCEPT !.registers[VF] =
                                               IF current_pixel THEN 1 ELSE 0]
                       IN  DrawFrom_or([m1 EXCEPT !.graphics_buffer[idx] = TRUE],
                                       vx, vy, n, p + 1)
             ELSE DrawFrom_or(m, vx, vy, n, p + 1)

\* The pixels of DRAW from pixel number p on (row p \div 8, column p % 8).
RECURSIVE DrawFrom(_, _, _, _, _)
DrawFrom(m, vx, vy, n, p) ==
    IF p >= 8 * n
    THEN Ok([m EXCEPT !.has_graphics_update = TRUE])
    ELSE LET row == p \div 8
             col == p % 8
             pixels == m.memory[m.index_register + row]
         IN  IF BitAnd(pixels, Shr(\h80, col)) > 0
             THEN LET idx == vx + col + ((vy + row) * DISPLAY_WIDTH) IN
                  IF idx >= DISPLAY_SIZE
                  THEN Panic(m, INDEX_OUT_OF_BOUNDS)
                  ELSE LET current_pixel == m.graphics_buffer[idx]
                           m1 == [m EXCEPT !.registers[VF] =
                                               IF current_pixel THEN 1 ELSE 0]
                       IN  DrawFrom([m1 EXCEPT !.graphics_buffer[idx] =
                                                   (current_pixel # TRUE)],
                                    vx, vy, n, p + 1)
             ELSE DrawFrom(m, vx, vy, n, p + 1)

DRAW(m, x, y, n) ==
    IF m.index_register + n > MEMORY_SIZE
    THEN {Panic(m, INDEX_OUT_OF_BOUNDS)}
    ELSE {DrawFrom(m, m.registers[x], m.registers[y], n, 0)}

SKPR(m, x) ==
    LET vx == m.registers[x] IN
    IF vx >= NUM_KEYS
    THEN {Panic(m, INDEX_OUT_OF_BOUNDS)}
    ELSE {Ok(IF m.keys[vx]
             THEN [m EXCEPT !.program_counter = @ + OPCODE_SIZE] ELSE m)}

SKUP(m, x) ==
    LET vx == m.registers[x] IN
    IF vx >= NUM_KEYS
    THEN {Panic(m, INDEX_OUT_OF_BOUNDS)}
    ELSE {Ok(IF ~m.keys[vx]
             THEN [m EXCEPT !.program_counter = @ + OPCODE_SIZE] ELSE m)}

MOVED(m, x) == {Ok([m EXCEPT !.registers[x] = m.delay_timer])}

KEYD(m, x) == {Ok([m EXCEPT !.keyd_register = x, !.wait_for_input = TRUE])}

\* Mutant: the key goes to V0 whatever register KEYD named.
KEYD_RESUME_into_V0(m, key) ==
    [m EXCEPT !.registers[0] = key, !.wait_for_input = FALSE]

KEYD_RESUME(m, key) ==
    [m EXCEPT !.registers[m.keyd_register] = key, !.wait_for_input = FALSE]

LOADD(m, x) == {Ok([m EXCEPT !.delay_timer = m.registers[x]])}

LOADS(m, x) == {Ok([m EXCEPT !.sound_timer = m.registers[x]])}

\* Mutant: ADDI keeps the sum as it is.
ADDI_unreduced(m, x) ==
    LET vx == m.registers[x]
        i  == m.index_register
        m1 == [m EXCEPT !.registers[VF] = IF vx + i > \hFFF THEN 1 ELSE 0]
    IN  {Ok([m1 EXCEPT !.index_register = vx + i])}

ADDI(m, x) ==
    LET vx == m.registers[x]
        i  == m.index_register
        m1 == [m EXCEPT !.registers[VF] = IF vx + i > \hFFF THEN 1 ELSE 0]
    IN  {Ok([m1 EXCEPT !.index_register = (vx + i) % \h1000])}

LDSPR(m, x) ==
    {Ok([m EXCEPT !.index_register = ADDRESS_FONT + m.registers[x] * 5])}

\* The writes memory[at[k]] = values[k] for k = 1, 2, ... in order; the first
\* one outside the memory panics, the earlier ones done.
RECURSIVE WriteMemory(_, _, _)
WriteMemory(m, at, values) ==
    IF values = << >>
    THEN Ok(m)
    ELSE IF at >= MEMORY_SIZE
         THEN Panic(m, INDEX_OUT_OF_BOUNDS)
         ELSE WriteMemory([m EXCEPT !.memory[at] = Head(values)],
                          at + 1, Tail(values))

\* Mutant: the tens digit is taken from Vx without dropping the hundreds.
BCD_tens_with_hundreds(m, x) ==
    LET i  == m.index_register
        vx == m.registers[x]
    IN  {WriteMemory(m, i, << vx \div 100, vx \div 10, vx % 10 >>)}

BCD(m, x) ==
    LET i  == m.index_register
        vx == m.registers[x]
    IN  {WriteMemory(m, i, << vx \div 100, (vx % 100) \div 10, vx % 10 >>)}

\* Mutant: STOR stops before Vx.
STOR_exclusive(m, x) ==
    {WriteMemory(m, m.index_register, [k \in 1..x |-> m.registers[k - 1]])}

STOR(m, x) ==
    {WriteMemory(m, m.index_register, [k \in 1..(x + 1) |-> m.registers[k - 1]])}

\* The reads registers[k] = memory[I + k] for k = from, ..., x in order.
RECURSIVE ReadFrom(_, _, _)
ReadFrom(m, x, k) ==
    IF k >= x + 1
    THEN Ok(m)
    ELSE IF m.index_register + k >= MEMORY_SIZE
         THEN Panic(m, INDEX_OUT_OF_BOUNDS)
         ELSE ReadFrom([m EXCEPT !.registers[k] = m.memory[m.index_register + k]],
                       x, k + 1)

\* Mutant: READ copies the registers to memory, as STOR does.
READ_storing(m, x) ==
    {WriteMemory(m, m.index_register, [k \in 1..(x + 1) |-> m.registers[k - 1]])}

READ(m, x) == {ReadFrom(m, x, 0)}

----------------------------------------------------------------------------
(* Core feature implementation.                                            *)

\* The match of execute_opcode, its arms tried in the order of the source.
Dispatch(m, s) ==
    LET a == s.a  x == s.x  y == s.y  n == s.n  nn == s.nn  nnn == s.nnn IN
    IF      a = 0 /\ x = 0 /\ y = \hE /\ n = 0   THEN CLR(m)
    ELSE IF a = 0 /\ x = 0 /\ y = \hE /\ n = \hE THEN RTS(m)
    ELSE IF a = 0                THEN SYS(m, nnn)
    ELSE IF a = 1                THEN JUMP(m, nnn)
    ELSE IF a = 2                THEN CALL(m, nnn)
    ELSE IF a = 3                THEN SKE(m, x, nn)
    ELSE IF a = 4                THEN SKNE(m, x, nn)
    ELSE IF a = 5 /\ n = 0       THEN SKRE(m, x, y)
    ELSE IF a = 6                THEN LOAD(m, x, nn)
    ELSE IF a = 7                THEN ADD(m, x, nn)
    ELSE IF a = 8 /\ n = 0       THEN MOVE(m, x, y)
    ELSE IF a = 8 /\ n = 1       THEN OR(m, x, y)
    ELSE IF a = 8 /\ n = 2       THEN AND(m, x, y)
    ELSE IF a = 8 /\ n = 3       THEN XOR(m, x, y)
    ELSE IF a = 8 /\ n = 4       THEN ADDR(m, x, y)
    ELSE IF a = 8 /\ n = 5       THEN SUB(m, x, y)
    ELSE IF a = 8 /\ n = 6       THEN SHR(m, x, y)
    ELSE IF a = 8 /\ n = 7       THEN SUBN(m, x, y)
    ELSE IF a = 8 /\ n = \hE     THEN SHL(m, x, y)
    ELSE IF a = 9 /\ n = 0       THEN SKRNE(m, x, y)
    ELSE IF a = \hA              THEN LOADI(m, nnn)
    ELSE IF a = \hB              THEN JUMPI(m, nnn)
    ELSE IF a = \hC              THEN RAND(m, x, nn)
    ELSE IF a = \hD              THEN DRAW(m, x, y, n)
    ELSE IF a = \hE /\ y = 9 /\ n = \hE   THEN SKPR(m, x)
    ELSE IF a = \hE /\ y = \hA /\ n = 1   THEN SKUP(m, x)
    ELSE IF a = \hF /\ y = 0 /\ n = 7     THEN MOVED(m, x)
    ELSE IF a = \hF /\ y = 0 /\ n = \hA   THEN KEYD(m, x)
    ELSE IF a = \hF /\ y = 1 /\ n = 5     THEN LOADD(m, x)
    ELSE IF a = \hF /\ y = 1 /\ n = 8     THEN LOADS(m, x)
    ELSE IF a = \hF /\ y = 1 /\ n = \hE   THEN ADDI(m, x)
    ELSE IF a = \hF /\ y = 2 /\ n = 9     THEN LDSPR(m, x)
    ELSE IF a = \hF /\ y = 3 /\ n = 3     THEN BCD(m, x)
    ELSE IF a = \hF /\ y = 5 /\ n = 5     THEN STOR(m, x)
    ELSE IF a = \hF /\ y = 6 /\ n = 5     THEN READ(m, x)
    ELSE {Panic(m, NOT_HANDLED)}

\* get_opcode reads memory[program_counter + 1], then memory[program_counter].
CanFetch(m) == m.program_counter + 1 < MEMORY_SIZE

get_opcode(m) ==
    LET low  == m.memory[m.program_counter + 1]
        high == m.memory[m.program_counter]
    IN  BitOr(Shl(high, 8), low)

\* Mutant: RETURN counts as an instruction that set program_counter itself.
AdvancePc_return_style(m, word) ==
    LET m1 == IF from_value(word).a \notin {\hB, \h2, \h1} /\ word # \h00EE
              THEN [m EXCEPT !.program_counter = @ + OPCODE_SIZE]
              ELSE m
    IN  [m1 EXCEPT !.last_opcode = word]

\* The end of execute_opcode, after the match returned normally.
AdvancePc(m, word) ==
    LET m1 == IF from_value(word).a \notin {\hB, \h2, \h1}
              THEN [m EXCEPT !.program_counter = @ + OPCODE_SIZE]
              ELSE m
    IN  [m1 EXCEPT !.last_opcode = word]

\* Mutant: a fetch that would leave the memory is skipped without a failure.
execute_opcode_skipping_fetch(m) ==
    LET m1 == [m EXCEPT !.has_graphics_update = FALSE] IN
    IF ~CanFetch(m1)
    THEN {Ok(m1)}
    ELSE LET word == get_opcode(m1) IN
         { IF r.fault = "none" THEN Ok(AdvancePc(r.m, word)) ELSE r :
             r \in Dispatch(m1, from_value(word)) }

\* Mutant: execute_opcode does not reset the update flag first.
execute_opcode_keeping_update(m) ==
    IF ~CanFetch(m)
    THEN {Panic(m, INDEX_OUT_OF_BOUNDS)}
    ELSE LET word == get_opcode(m) IN
         { IF r.fault = "none" THEN Ok(AdvancePc(r.m, word)) ELSE r :
             r \in Dispatch(m, from_value(word)) }

execute_opcode(m) ==
    LET m1 == [m EXCEPT !.has_graphics_update = FALSE] IN
    IF ~CanFetch(m1)
    THEN {Panic(m1, INDEX_OUT_OF_BOUNDS)}
    ELSE LET word == get_opcode(m1) IN
         { IF r.fault = "none" THEN Ok(AdvancePc(r.m, word)) ELSE r :
             r \in Dispatch(m1, from_value(word)) }

\* Mutant: the sound timer is only decremented while the delay timer runs.
decrement_timers_coupled(m) ==
    IF m.delay_timer > 0
    THEN [m EXCEPT !.delay_timer = @ - 1,
                   !.sound_timer = IF @ > 0 THEN @ - 1 ELSE @]
    ELSE m

decrement_timers(m) ==
    LET m1 == IF m.delay_timer > 0 THEN [m EXCEPT !.delay_timer = @ - 1] ELSE m
    IN  IF m1.sound_timer > 0 THEN [m1 EXCEPT !.sound_timer = @ - 1] ELSE m1

\* The loop of set_keys from key k on: the first pressed key resumes KEYD.
RECURSIVE ResumeOnFirstPressed(_, _, _)
ResumeOnFirstPressed(m, keys, k) ==
    IF k >= NUM_KEYS THEN m
    ELSE IF keys[k] THEN KEYD_RESUME(m, k)
    ELSE ResumeOnFirstPressed(m, keys, k + 1)

set_keys(m, keys) ==
    LET m1 == IF m.wait_for_input THEN ResumeOnFirstPressed(m, keys, 0) ELSE m
    IN  [m1 EXCEPT !.keys = keys]

\* Mutant: tick does not look at wait_for_input.
tick_while_waiting(m) ==
    LET m1 == [m EXCEPT !.cycle = @ + 1] IN
    { IF r.fault = "none" /\ r.m.cycle % 8 = 0
      THEN Ok(decrement_timers(r.m)) ELSE r :
        r \in execute_opcode(m1) }

\* Mutant: tick leaves the timers to the host.
tick_without_decay(m) ==
    LET m1 == [m EXCEPT !.cycle = @ + 1] IN
    IF m1.wait_for_input THEN {Ok(m1)} ELSE execute_opcode(m1)

tick(m) ==
    LET m1 == [m EXCEPT !.cycle = @ + 1] IN
    IF m1.wait_for_input
    THEN {Ok(m1)}
    ELSE { IF r.fault = "none" /\ r.m.cycle % 8 = 0
           THEN Ok(decrement_timers(r.m)) ELSE r :
             r \in execute_opcode(m1) }

\* Mutant: the program is copied from one cell after ADDRESS_ROM on.
load_rom_one_late(m, bytes) ==
    LET m1 == [m EXCEPT !.memory =
                  [i \in 0..(MEMORY_SIZE - 1) |->
                      IF i >= ADDRESS_ROM + 1 /\ i < ADDRESS_ROM + 1 + Len(bytes)
                      THEN bytes[i - ADDRESS_ROM] ELSE m.memory[i]]]
    IN  IF ADDRESS_ROM + 1 + Len(bytes) > MEMORY_SIZE
        THEN Panic(m1, INDEX_OUT_OF_BOUNDS)
        ELSE Ok([m1 EXCEPT !.rom_size = Len(bytes)])

\* load_rom on a file that was read: the bytes go to memory from ADDRESS_ROM on,
\* one by one, and a byte past the end of the memory panics.
load_rom(m, bytes) ==
    LET fits == IF Len(bytes) <= MEMORY_SIZE - ADDRESS_ROM
                THEN Len(bytes) ELSE MEMORY_SIZE - ADDRESS_ROM
        m1 == [m EXCEPT !.memory =
                  [i \in 0..(MEMORY_SIZE - 1) |->
                      IF i >= ADDRESS_ROM /\ i < ADDRESS_ROM + fits
                      THEN bytes[i - ADDRESS_ROM + 1] ELSE m.memory[i]]]
    IN  IF fits < Len(bytes)
        THEN Panic(m1, INDEX_OUT_OF_BOUNDS)
        ELSE Ok([m1 EXCEPT !.rom_size = Len(bytes)])

----------------------------------------------------------------------------
(* The programs and the key vectors the host hands to the machine.         *)

\* The bytes of a program given as its 16-bit words, high byte first.
Bytes(words) ==
    [i \in 1..(2 * Len(words)) |->
        IF i % 2 = 1 THEN words[(i + 1) \div 2] \div 256
                     ELSE words[i \div 2] % 256]

\* Waits for a key into V5, then for one into VF, and runs into the zeroes
\* after the program.
RomWait == << \hF50A, \h6A01, \hFF0A >>

\* Sets both timers, reads the delay timer back; SET_DELAY is the 8th instruction.
RomTimers ==
    << \h6005, \h6103, \hF118, \hF207, \h7201, \h7201, \h7201, \hF015, \h1206 >>

\* depth nested CALLs, the CALL of level i at ADDRESS_ROM + 4i with a RETURN
\* after it, then a last RETURN with nothing left on the stack.
RomChain(depth) ==
    [k \in 1..(2 * depth + 1) |->
        IF k % 2 = 1 /\ k < 2 * depth + 1
        THEN \h2000 + ADDRESS_ROM + 2 * (k + 1)
        ELSE \h00EE]

\* A program that fills the memory from ADDRESS_ROM to its end: JUMP 0x200 all over.
RomFull == [k \in 1..((MEMORY_SIZE - ADDRESS_ROM) \div 2) |-> \h1200]

\* A subroutine that calls itself.
RomRecurse == << \h2200 >>

\* Arithmetic that leaves the byte range unless it wraps (0xFF + 3, 2 + 0xFF,
\* 0xFF << 1, 1 - 0xFE), a timer set from a register, a random byte, and BCD,
\* STORE and READ at 0x300.
RomWrap ==
    << \h60FF, \h7003, \hF015, \h61FF, \h8014, \h810E, \h8015, \hC201,
       \hA300, \hF133, \hF155, \hF265 >>

\* Every skip with its condition holding (over a SYS 0 that must not run) and
\* failing, the 5XY0 that holds being the 8th instruction with the delay timer
\* set to 3; the key skips on key 7 and on key 3; then JUMPI with V0 = 7 to a
\* CALL, and from there a JUMP to the last cell of the memory.
RomSkips ==
    << \h6007, \h6103, \hF115,
       \h3007, \h0000, \h3008,
       \h4008, \h0000, \h4007,
       \h5000, \h0000, \h5010,
       \h9010, \h0000, \h9000,
       \hE09E, \h6A01, \hE0A1, \h6A02,
       \hE19E, \hE1A1, \h0000,
       \hB229, \h0000, \h2236, \h0000, \h0000, \h1FFF >>

\* Words that are no supported instruction, each a program of its own.
SysWords ==
    {\h0000, \h0001, \h00E1, \h00EF, \h00FE, \h00EA, \h01E0, \h0EEE, \h0123, \h0FFF}

UnknownWords ==
    ( {\h5000 + n : n \in 1..15} \cup {\h5AB7}
        \cup {\h8000 + n : n \in (8..13) \cup {15}} \cup {\h8ABF}
        \cup {\h9000 + n : n \in 1..15} \cup {\h9AB1}
        \cup {\hE000 + 16 * y + n : y \in {0, 9, 10, 15}, n \in {0, 1, 14, 15}}
        \cup {\hF000 + 16 * y + n : y \in 0..7, n \in {0, 3, 5, 7, 8, 9, 10, 14}} )
      \ {\hE09E, \hE0A1, \hF007, \hF00A, \hF015, \hF018, \hF01E, \hF029,
         \hF033, \hF055, \hF065}

SupportedWords ==
    {\h00E0, \h00EE, \h8127, \h1200, \h6A05, \hF10A}

Roms ==
    {RomWait, RomTimers, RomWrap, RomSkips, RomRecurse, RomFull, << >>}
      \cup {RomChain(depth) : depth \in 1..STACK_SIZE}
      \cup {<< w >> : w \in SysWords \cup UnknownWords \cup SupportedWords}

\* The file at the path given to load_rom: its bytes (a program, or a file one
\* byte too long for the memory), or a file that cannot be read.
RomFiles ==
    {[readable |-> TRUE, bytes |-> Bytes(rom)] : rom \in Roms}
      \cup {[readable |-> TRUE, bytes |-> Append(Bytes(RomFull), \h12)]}
      \cup {[readable |-> FALSE, bytes |-> << >>]}

PressedSets == {{}, {7}, {3, 12}}

KeyVectors == {[k \in 0..(NUM_KEYS - 1) |-> k \in S] : S \in PressedSets}

\* The programs the host single-steps: short programs that set registers and
\* the index register up and then execute the instruction under study.

\* Register values, and the pairs of operand registers x, y of an instruction.
ByteSamples == {\h00, \h01, \h5A, \h80, \hFF}

OperandPairs == {<<0, 1>>, <<3, 3>>, <<14, 15>>, <<15, 0>>}

\* VF = 0x77, Vx = a, Vy = b (the later LOAD wins on a shared register), then w.
ArithCase(x, y, a, b, w) ==
    << \h6F77, \h6000 + 256 * x + a, \h6000 + 256 * y + b, w >>

RECURSIVE ArithCases(_, _, _, _, _)
ArithCases(x, y, a, b, words) ==
    IF words = << >> THEN << >>
    ELSE ArithCase(x, y, a, b, Head(words)) \o ArithCases(x, y, a, b, Tail(words))

\* LOAD and ADD of each sample constant, each on VF = 0x77, Vx = a, Vy = b.
RomImmediate(x, y, a, b) ==
    ArithCases(x, y, a, b,
        << \h6000 + 256 * x + \h00, \h7000 + 256 * x + \h00,
           \h6000 + 256 * x + \h01, \h7000 + 256 * x + \h01,
           \h6000 + 256 * x + \h5A, \h7000 + 256 * x + \h5A,
           \h6000 + 256 * x + \hFF, \h7000 + 256 * x + \hFF >>)

\* 8XYk for each k of ks in turn, each on VF = 0x77, Vx = a, Vy = b.
RomRegister(x, y, a, b, ks) ==
    ArithCases(x, y, a, b, [j \in 1..Len(ks) |-> \h8000 + 256 * x + 16 * y + ks[j]])

RomsArith ==
    {RomRegister(p[1], p[2], a, b, ks) :
        p \in OperandPairs, a \in ByteSamples, b \in ByteSamples,
        ks \in {<<0, 1, 2, 3, 7>>, <<4, 5, 6, 14>>}}
      \cup {RomImmediate(p[1], p[2], a, \h33) : p \in OperandPairs, a \in ByteSamples}

\* Vx = vx, Vy = vy, I = i, then the same DXYN twice.
RomDrawTwice(x, y, vx, vy, n, i) ==
    << \h6000 + 256 * x + vx, \h6000 + 256 * y + vy, \hA000 + i,
       \hD000 + 256 * x + 16 * y + n, \hD000 + 256 * x + 16 * y + n >>

\* Sprites: the glyph of 0, the zeroes below the font, and the last two cells
\* of the memory (a sprite of more than 2 rows from there leaves the memory).
SpriteAddresses == {ADDRESS_FONT, \h000, \hFFE}

RomsDrawTwice ==
    {RomDrawTwice(p[1], p[2], vx, vy, n, i) :
        p \in {<<0, 1>>, <<2, 2>>, <<15, 0>>, <<0, 15>>},
        vx \in {0, 5, 62}, vy \in {0, 31}, n \in {0, 1, 5},
        i \in SpriteAddresses}

\* 0x80 (glyph 2, row 3) at (0, 0), then 0xF0 over it: the first pixel of the
\* second sprite collides and its last three do not.
RomCollideFirst == << \hA05D, \hD001, \hA050, \hD001 >>

\* 0x10 (glyph 2, row 1) at (0, 0), then 0xF0 over it: only the last pixel collides.
RomCollideLast == << \hA05B, \hD001, \hA050, \hD001 >>

\* A subroutine entered, both timers set to 5, the glyph of 0 drawn, and CLEAR
\* as the 8th instruction (with the LOAD before it) or as the 7th.
RomClear(eighth) ==
    << \h2202, \h6005, \hF015, \hF018, \hA050, \hD115 >>
      \o (IF eighth THEN << \h6A77 >> ELSE << >>) \o << \h00E0 >>

\* BCD of 123, STORE of V0..V1 and READ of V0..V1 that reach the end of the
\* memory, and the same three inside it.
RomsMemoryEnd ==
    { << \h607B, \hAFFE, \hF033 >>,
      << \h6011, \h6122, \hAFFF, \hF155 >>,
      << \h6011, \hAFFF, \hF055, \h6000, \hF165 >>,
      << \h607B, \hA300, \hF033, \hF265 >>,
      << \h6011, \h6122, \hA201, \hF155 >>,
      << \hA050, \hF165 >> }

\* SKIP_KEY and SKIP_NKEY on a register that names no key, and on key 7.
RomsKeys ==
    { << \h6010, \hE09E >>, << \h6010, \hE0A1 >>,
      << \h6007, \hE09E >>, << \h6007, \hE0A1 >> }

\* Both timers set to 5, then a wait for a key that no one presses.
RomWaitTimed == << \h6005, \hF015, \hF018, \hF10A >>

\* ADDI from 0xFFF + 0xFF, to 0xFFF exactly, and with x = F from 0xFFE + 2;
\* then LDSPR of 0xFF, of glyph F and of glyph 0.
RomIndex ==
    << \h60FF, \hAFFF, \hF01E, \hF01E,
       \hAFFE, \h6101, \hF11E,
       \h6F02, \hAFFE, \hFF1E,
       \hF029, \h6A0F, \hFA29, \h6B00, \hFB29 >>

\* A program that fills the memory: a JUMP to its last word at 0xFFE, which
\* is the word last.
RomEnd(last) ==
    [k \in 1..((MEMORY_SIZE - ADDRESS_ROM) \div 2) |->
        IF k = 1 THEN \h1FFE
        ELSE IF k = (MEMORY_SIZE - ADDRESS_ROM) \div 2 THEN last
        ELSE \h0000]

\* Ways to the end of the memory and beyond: JUMPI to 0x10FE and to 0xFFF,
\* JUMP and CALL to 0xFFF, JUMP to 0xFFE where a zero word is fetched, and
\* running off the last word, a LOAD or a wait for a key.
RomsFetchEnd ==
    { << \h60FF, \hBFFF >>, << \h6000, \hBFFF >>, << \h1FFF >>, << \h2FFF >>,
      << \h1FFE >>, RomEnd(\h6A01), RomEnd(\hF00A) }

\* A random byte under the mask 0xFF, then its BCD at 0x300; one under 0x0F.
RomsRandom == { << \hC1FF, \hA300, \hF133 >>, << \hC20F >> }

\* V0..V3 set, V0..V2 stored at 0x300, changed and read back; then V0..VF
\* stored into the last 16 cells of the memory, VF and V3 changed, and all read
\* back.
RomStoreRead ==
    << \h6011, \h6122, \h6233, \h6344, \hA300, \hF255,
       \h6000, \h7101, \h8223, \hF265,
       \h6F99, \hAFF0, \hFF55, \h6F00, \h6355, \hFF65 >>

\* BCD of 0xFF into the last three cells of the memory, then at 0x300.
RomBcdEnd == << \h61FF, \hAFFD, \hF133, \hA300, \hF133 >>

RomsStep ==
    RomsArith \cup RomsDrawTwice \cup RomsMemoryEnd \cup RomsKeys
      \cup RomsFetchEnd \cup RomsRandom
      \cup {RomCollideFirst, RomCollideLast, RomClear(TRUE), RomClear(FALSE),
            << \h00E0 >>, << \h6001, \h615A, \h8017 >>, RomWaitTimed,
            RomIndex, RomBcdEnd, RomStoreRead}

RomFilesStep == {[readable |-> TRUE, bytes |-> Bytes(rom)] : rom \in RomsStep}

----------------------------------------------------------------------------
(* The host: main.rs constructs the machine, loads the program and then    *)
(* calls set_keys, tick and decrement_timers.                              *)

\* What a host call found: the scalar fields of the machine before it.
Pre(m) ==
    [ cycle           |-> m.cycle,
      delay_timer     |-> m.delay_timer,
      sound_timer     |-> m.sound_timer,
      program_counter |-> m.program_counter,
      stack_pointer   |-> m.stack_pointer,
      keyd_register   |-> m.keyd_register,
      graphics_buffer |-> m.graphics_buffer,
      wait_for_input  |-> m.wait_for_input ]

\* A tick of machine m fetches and dispatches an instruction.
Executes(m) == ~m.wait_for_input /\ CanFetch(m)

\* The CALLs not yet returned from, after a tick of machine m that ended in r.
CallSitesAfter(m, r, sites) ==
    IF ~Executes(m) \/ r.fault # "none" THEN sites
    ELSE IF from_value(get_opcode(m)).a = 2 THEN Append(sites, m.program_counter)
    ELSE IF get_opcode(m) = \h00EE THEN SubSeq(sites, 1, Len(sites) - 1)
    ELSE sites

\* The argument of a host call that takes none.
NoArgument == << >>

NoSymbols == [a |-> 0, x |-> 0, y |-> 0, n |-> 0, nn |-> 0, nnn |-> 0]

Init ==
    /\ state = Chip8Init
    /\ fault = "none"
    /\ phase = "init"
    /\ rom_file \in RomFiles
    /\ call = [op |-> "init", arg |-> NoArgument, pre |-> Pre(Chip8Init)]
    /\ call_sites = << >>
    /\ opcode = 0
    /\ opcode_symbols = NoSymbols
    /\ HostInit

\* Emulator::init: state.load_rom(path).unwrap()
LoadRom ==
    /\ phase = "init"
    /\ fault = "none"
    /\ IF rom_file.readable
       THEN LET r == load_rom(state, rom_file.bytes) IN
            /\ state' = r.m
            /\ fault' = r.fault
            /\ phase' = "loaded"
       ELSE /\ fault' = LOAD_UNWRAP
            /\ UNCHANGED <<state, phase>>
    /\ call' = [op |-> "load_rom", arg |-> NoArgument, pre |-> Pre(state)]
    /\ UNCHANGED <<rom_file, call_sites, opcode, opcode_symbols>>
    /\ UNCHANGED host

Tick ==
    /\ phase = "loaded"
    /\ fault = "none"
    /\ state.cycle < MaxCycle
    /\ \E r \in tick(state) :
          /\ state' = r.m
          /\ fault' = r.fault
          /\ call_sites' = CallSitesAfter(state, r, call_sites)
    /\ call' = [op |-> "tick", arg |-> NoArgument, pre |-> Pre(state)]
    /\ UNCHANGED <<phase, rom_file, opcode, opcode_symbols>>
    /\ UNCHANGED host

SetKeys ==
    /\ phase = "loaded"
    /\ fault = "none"
    /\ \E keys \in KeyVectors :
          /\ state' = set_keys(state, keys)
          /\ call' = [op |-> "set_keys", arg |-> keys, pre |-> Pre(state)]
    /\ UNCHANGED <<fault, phase, rom_file, call_sites, opcode, opcode_symbols>>
    /\ UNCHANGED host

DecrementTimers ==
    /\ phase = "loaded"
    /\ fault = "none"
    /\ state' = decrement_timers(state)
    /\ call' = [op |-> "decrement_timers", arg |-> NoArgument, pre |-> Pre(state)]
    /\ UNCHANGED <<fault, phase, rom_file, call_sites, opcode, opcode_symbols>>
    /\ UNCHANGED host

Next == LoadRom \/ Tick \/ SetKeys \/ DecrementTimers

Spec == Init /\ [][Next]_vars

\* The paused emulator single-stepping a program: after the load, only Tick
\* events reach the machine (main.rs: ToggleRun, then Tick).
InitStep ==
    /\ state = Chip8Init
    /\ fault = "none"
    /\ phase = "init"
    /\ rom_file \in RomFilesStep
    /\ call = [op |-> "init", arg |-> NoArgument, pre |-> Pre(Chip8Init)]
    /\ call_sites = << >>
    /\ opcode = 0
    /\ opcode_symbols = NoSymbols
    /\ HostInit

NextStep == LoadRom \/ Tick

SpecStep == InitStep /\ [][NextStep]_vars

----------------------------------------------------------------------------
(* The debug dump (chip8.rs, format_debug), which the host shows after a    *)
(* single step and after a restore.                                         *)

\* The lines of the dump, the program counter line showing pc.
DebugText(m, pc) ==
    [ PC        |-> pc,
      SP        |-> m.stack_pointer,
      I         |-> m.index_register,
      Opcode    |-> m.last_opcode,
      Cycle     |-> m.cycle,
      Registers |-> m.registers,
      Stack     |-> m.stack,
      Keys      |-> [k \in 0..(NUM_KEYS - 1) |-> IF m.keys[k] THEN 1 ELSE 0] ]

NoText == << >>

\* `self.program_counter - Chip8::ADDRESS_ROM` below ADDRESS_ROM panics in a
\* build with overflow checks and wraps around usize in one without.
format_debug(m) ==
    IF m.program_counter < ADDRESS_ROM
    THEN {[text |-> NoText, fault |-> SUBTRACT_OVERFLOW],
          [text  |-> DebugText(m, USIZE_MAX - (ADDRESS_ROM - m.program_counter) + 1),
           fault |-> "none"]}
    ELSE {[text  |-> DebugText(m, m.program_counter - ADDRESS_ROM),
           fault |-> "none"]}

FormatDebug ==
    /\ phase = "loaded"
    /\ fault = "none"
    /\ \E r \in format_debug(state) :
          /\ fault' = r.fault
          /\ call' = [op |-> "format_debug", arg |-> r.text, pre |-> Pre(state)]
    /\ UNCHANGED <<state, phase, rom_file, call_sites, opcode, opcode_symbols>>
    /\ UNCHANGED host

\* Programs that leave the program area: a JUMP and a CALL into the font,
\* a JUMP to address 0; and programs that stay in it.
RomsDebug ==
    { << \h1052 >>, << \h2050 >>, << \h6A01, \h1000 >>,
      RomIndex, RomStoreRead, RomSkips, RomChain(4) }

InitDebug ==
    /\ state = Chip8Init
    /\ fault = "none"
    /\ phase = "init"
    /\ rom_file \in {[readable |-> TRUE, bytes |-> Bytes(rom)] : rom \in RomsDebug}
    /\ call = [op |-> "init", arg |-> NoArgument, pre |-> Pre(Chip8Init)]
    /\ call_sites = << >>
    /\ opcode = 0
    /\ opcode_symbols = NoSymbols
    /\ HostInit

NextDebug == LoadRom \/ Tick \/ FormatDebug

SpecDebug == InitDebug /\ [][NextDebug]_vars

----------------------------------------------------------------------------
(* Save and restore (main.rs): Emulator.saved_state holds a clone of the    *)
(* machine.                                                                *)

\* self.saved_state = Some(self.state.clone())
save_state(m) == << m >>

\* Mutant: restore leaves the timers of the current machine running.
restore_state_keeping_timers(m, saved) ==
    IF saved # << >>
    THEN [saved[1] EXCEPT !.delay_timer = m.delay_timer,
                          !.sound_timer = m.sound_timer]
    ELSE m

\* match &self.saved_state { Some(s) => self.state = s.clone(), None => () }
restore_state(m, saved) == IF saved # << >> THEN saved[1] ELSE m

SaveState ==
    /\ phase = "loaded"
    /\ fault = "none"
    /\ saved_state' = save_state(state)
    /\ saved_at' = << [state |-> state, call_sites |-> call_sites] >>
    /\ call' = [op |-> "save_state", arg |-> NoArgument, pre |-> Pre(state)]
    /\ UNCHANGED <<state, fault, phase, rom_file, call_sites, opcode, opcode_symbols>>
    /\ UNCHANGED <<is_paused, audio_paused, states>>

RestoreState ==
    /\ phase = "loaded"
    /\ fault = "none"
    /\ state' = restore_state(state, saved_state)
    /\ call_sites' = IF saved_at # << >> THEN saved_at[1].call_sites ELSE call_sites
    /\ call' = [op |-> "restore_state", arg |-> NoArgument, pre |-> Pre(state)]
    /\ UNCHANGED <<fault, phase, rom_file, opcode, opcode_symbols>>
    /\ UNCHANGED host

\* V0 = 2, the delay timer set from it, the glyph of 0 drawn, V1 incremented.
RomSave == << \h6002, \hF015, \hA050, \hD005, \h7101 >>

InitSave ==
    /\ state = Chip8Init
    /\ fault = "none"
    /\ phase = "init"
    /\ rom_file = [readable |-> TRUE, bytes |-> Bytes(RomSave)]
    /\ call = [op |-> "init", arg |-> NoArgument, pre |-> Pre(Chip8Init)]
    /\ call_sites = << >>
    /\ opcode = 0
    /\ opcode_symbols = NoSymbols
    /\ HostInit

NextSave ==
    LoadRom \/ Tick \/ SetKeys \/ DecrementTimers \/ SaveState \/ RestoreState

SpecSave == InitSave /\ [][NextSave]_vars

----------------------------------------------------------------------------
(* The host loop (main.rs, run_forever): one iteration handles an input    *)
(* event, runs the machine unless paused, and starts or stops the tone.    *)

InputEvents == {"None", "Exit", "ToggleRun", "Tick", "SaveState", "RestoreState"}

\* The emulator around the machine, as one value: the fields an iteration
\* changes, with the history of open CALLs and of the last save.
Emulator ==
    [ state       |-> state,
      saved_state |-> saved_state,
      saved_at    |-> saved_at,
      is_paused   |-> is_paused,
      call_sites  |-> call_sites ]

\* self.state.tick() on emulator e: the outcomes, with the fault of each.
TickEmulator(e) ==
    { [e     |-> [e EXCEPT !.state = r.m,
                           !.call_sites = CallSitesAfter(e.state, r, e.call_sites)],
       fault |-> r.fault] : r \in tick(e.state) }

\* self.debugger.overwrite(self.state.dump_state()) after the outcomes given:
\* the dump of the machine is formatted, which changes nothing and may panic.
DumpState(outcomes) ==
    UNION { IF r.fault # "none" THEN {r}
            ELSE {[e |-> r.e, fault |-> d.fault] : d \in format_debug(r.e.state)} :
              r \in outcomes }

\* The match on the input event.
HandleEvent(e, event) ==
    IF event = "ToggleRun"
    THEN {[e |-> [e EXCEPT !.is_paused = ~e.is_paused], fault |-> "none"]}
    ELSE IF event = "SaveState"
    THEN {[e |-> [e EXCEPT !.saved_state = save_state(e.state),
                           !.saved_at = << [state      |-> e.state,
                                           call_sites |-> e.call_sites] >>],
           fault |-> "none"]}
    ELSE IF event = "RestoreState"
    THEN DumpState(
           {[e |-> [e EXCEPT !.state = restore_state(e.state, e.saved_state),
                             !.call_sites = IF e.saved_at # << >>
                                            THEN e.saved_at[1].call_sites ELSE @],
             fault |-> "none"]})
    ELSE IF event = "Tick"
    THEN DumpState(TickEmulator(e))
    ELSE {[e |-> e, fault |-> "none"]}

\* if !self.is_paused { set_keys(..); tick() }
RunMachine(e, keys) ==
    IF e.is_paused
    THEN {[e |-> e, fault |-> "none"]}
    ELSE TickEmulator([e EXCEPT !.state = set_keys(e.state, keys)])

\* Mutant: the tone is started and never stopped.
update_audio_never_stopping(m, paused) ==
    IF m.sound_timer > 0 /\ paused THEN FALSE ELSE paused

\* The end of the iteration: play() when the sound timer runs and the tone is
\* paused, stop() when it is 0 and the tone is playing.  The result is
\* audio.is_paused() after it.
update_audio(m, paused) ==
    IF m.sound_timer > 0 /\ paused THEN FALSE
    ELSE IF m.sound_timer = 0 /\ ~paused THEN TRUE
    ELSE paused

\* The outcomes of the iteration up to the tone: a panic in a tick ends it.
IterationOutcomes(e, event, keys) ==
    UNION { IF r.fault # "none" THEN {r} ELSE RunMachine(r.e, keys) :
              r \in HandleEvent(e, event) }

\* One pass through the body of the loop, get_event() giving event and
\* get_chip8_keys() giving keys.
IterationWith(event, keys) ==
    /\ phase = "loaded"
    /\ fault = "none"
    /\ state.cycle + 1 < MaxCycle
    /\ \E r \in IterationOutcomes(Emulator, event, keys) :
          /\ state' = r.e.state
          /\ saved_state' = r.e.saved_state
          /\ saved_at' = r.e.saved_at
          /\ is_paused' = r.e.is_paused
          /\ call_sites' = r.e.call_sites
          /\ fault' = r.fault
          /\ audio_paused' = IF r.fault = "none"
                             THEN update_audio(r.e.state, audio_paused)
                             ELSE audio_paused
    /\ call' = [op  |-> "iteration",
                arg |-> [event |-> event, keys |-> keys,
                         audio_paused |-> audio_paused],
                pre |-> Pre(state)]
    /\ UNCHANGED <<phase, rom_file, opcode, opcode_symbols, states>>

Iteration ==
    \E event \in InputEvents \ {"Exit"}, keys \in KeyVectors :
       IterationWith(event, keys)

\* An iteration of a session in which nothing is saved or restored.
IterationUnsaved ==
    \E event \in {"None", "ToggleRun", "Tick"}, keys \in KeyVectors :
       IterationWith(event, keys)

\* InputEvent::Exit => break 'program
Exit ==
    /\ phase = "loaded"
    /\ fault = "none"
    /\ phase' = "exited"
    /\ UNCHANGED <<state, fault, rom_file, call, call_sites, opcode, opcode_symbols>>
    /\ UNCHANGED host

\* V0 = 1, the sound timer set from it, and seven ADDs: the 8th instruction
\* brings the decay that ends the tone.
RomTone ==
    << \h6001, \hF018, \h7101, \h7101, \h7101, \h7101, \h7101, \h7101, \h7101 >>

InitLoop ==
    /\ state = Chip8Init
    /\ fault = "none"
    /\ phase = "init"
    /\ rom_file = [readable |-> TRUE, bytes |-> Bytes(RomTone)]
    /\ call = [op |-> "init", arg |-> NoArgument, pre |-> Pre(Chip8Init)]
    /\ call_sites = << >>
    /\ opcode = 0
    /\ opcode_symbols = NoSymbols
    /\ HostInit

NextLoop == LoadRom \/ Iteration \/ Exit

SpecLoop == InitLoop /\ [][NextLoop]_vars

\* A wait for a key into V1, an ADD to V1, a wait for a key into V2, and a JUMP
\* to itself.
RomWaitLoop == << \hF10A, \h7102, \hF20A, \h1206 >>

InitWaitLoop ==
    /\ state = Chip8Init
    /\ fault = "none"
    /\ phase = "init"
    /\ rom_file = [readable |-> TRUE, bytes |-> Bytes(RomWaitLoop)]
    /\ call = [op |-> "init", arg |-> NoArgument, pre |-> Pre(Chip8Init)]
    /\ call_sites = << >>
    /\ opcode = 0
    /\ opcode_symbols = NoSymbols
    /\ HostInit

NextWaitLoop == LoadRom \/ IterationUnsaved \/ Exit

SpecWaitLoop == InitWaitLoop /\ [][NextWaitLoop]_vars

----------------------------------------------------------------------------
(* The history buffer (emulator.rs): Emulator.states, to which load_rom,   *)
(* set_keys and tick each push the machine they made.                      *)

MAX_STATES == 1000

\* The saves made in a run.
MaxSaves == 1003

\* Emulator::save_state: above MAX_STATES entries the buffer is cut to
\* states[1000..], then the machine is pushed.
emulator_save_state(buffer, c8) ==
    Append(IF Len(buffer) > MAX_STATES
           THEN SubSeq(buffer, 1000 + 1, Len(buffer))
           ELSE buffer,
           c8)

\* The number of the save that stored the last snapshot of the buffer.
LastSaved == IF states = << >> THEN 0 ELSE states[Len(states)]

\* A call of load_rom, set_keys or tick saves the machine it made; the
\* snapshot stands in the buffer as the number of its save, in place of the
\* machine.
HistorySave ==
    /\ phase = "history"
    /\ LastSaved < MaxSaves
    /\ states' = emulator_save_state(states, LastSaved + 1)
    /\ UNCHANGED <<state, fault, phase, rom_file, call, call_sites, opcode,
                   opcode_symbols, saved_state, saved_at, is_paused, audio_paused>>

InitHistory ==
    /\ state = Chip8Init
    /\ fault = "none"
    /\ phase = "history"
    /\ rom_file = [readable |-> FALSE, bytes |-> << >>]
    /\ call = [op |-> "init", arg |-> NoArgument, pre |-> Pre(Chip8Init)]
    /\ call_sites = << >>
    /\ opcode = 0
    /\ opcode_symbols = NoSymbols
    /\ HostInit

NextHistory == HistorySave

SpecHistory == InitHistory /\ [][NextHistory]_vars

----------------------------------------------------------------------------
(* The decoder on its own: OpCodeSymbols::from_value applied to a word.    *)

\* One more than the largest word the decoder is given.
NumWords == 65536

InitDecode ==
    /\ state = Chip8Init
    /\ fault = "none"
    /\ phase = "undecoded"
    /\ rom_file = [readable |-> FALSE, bytes |-> << >>]
    /\ call = [op |-> "init", arg |-> NoArgument, pre |-> Pre(Chip8Init)]
    /\ call_sites = << >>
    /\ opcode \in 0..(NumWords - 1)
    /\ opcode_symbols = NoSymbols
    /\ HostInit

Decode ==
    /\ phase = "undecoded"
    /\ opcode_symbols' = from_value(opcode)
    /\ phase' = "decoded"
    /\ UNCHANGED <<state, fault, rom_file, call, call_sites, opcode>>
    /\ UNCHANGED host

NextDecode == Decode

SpecDecode == InitDecode /\ [][NextDecode]_vars

----------------------------------------------------------------------------
(* The claims.                                                             *)

Max(a, b) == IF a >= b THEN a ELSE b

\* The big-endian word at the program counter of machine m.
WordAtPc(m) ==
    m.memory[m.program_counter] * 256 + m.memory[m.program_counter + 1]

\* The keys pressed in key vector v.
Pressed(v) == {k \in 0..15 : v[k]}

\* C1: a call to tick() on a machine with wait_for_input = true changes no
\* field of the machine, the cycle counter included.
C1_TickWhileWaitingChangesNothing ==
    [][(call'.op = "tick" /\ state.wait_for_input) => state' = state]_vars

\* C2: set_keys(v) on a machine that waits for input: with a key pressed in v,
\* the pending input register receives the lowest pressed index, no other
\* register changes and wait_for_input becomes false; with none pressed,
\* wait_for_input stays true and no register changes; the stored key vector
\* becomes v in both cases.
C2_SetKeysResumes ==
    [][(call'.op = "set_keys" /\ state.wait_for_input) =>
          LET v == call'.arg IN
          /\ state'.keys = v
          /\ IF Pressed(v) # {}
             THEN LET i == CHOOSE k \in Pressed(v) : \A j \in Pressed(v) : k <= j IN
                  /\ i \in 0..15
                  /\ state'.registers =
                        [state.registers EXCEPT ![state.keyd_register] = i]
                  /\ ~state'.wait_for_input
             ELSE /\ state'.wait_for_input
                  /\ state'.registers = state.registers]_vars

\* C2 witness: the machine waited for a key into VF, keys 3 and 12 came pressed
\* and VF holds 3.
C2_Witness ==
    /\ call.op = "set_keys"
    /\ call.pre.wait_for_input
    /\ call.pre.keyd_register = 15
    /\ Pressed(state.keys) = {3, 12}
    /\ state.registers[15] = 3
    /\ ~state.wait_for_input

\* C3: wait_for_input turns true only in a tick that executes FX0A, which notes
\* x as the pending register and leaves program_counter two past the FX0A; it
\* turns false only in a set_keys call with a pressed key; and no call made
\* while it is true moves program_counter.
C3_WaitTransitions ==
    [][/\ (~state.wait_for_input /\ state'.wait_for_input) =>
             /\ call'.op = "tick"
             /\ state.program_counter + 1 < 4096
             /\ WordAtPc(state) \div 4096 = 15
             /\ WordAtPc(state) % 256 = 10
             /\ state'.keyd_register = (WordAtPc(state) \div 256) % 16
             /\ state'.program_counter = state.program_counter + 2
       /\ (state.wait_for_input /\ ~state'.wait_for_input) =>
             /\ call'.op = "set_keys"
             /\ Pressed(call'.arg) # {}
       /\ state.wait_for_input =>
             state'.program_counter = state.program_counter]_vars

\* C3 witness: FX0A at 0x200 ran, ticks passed while waiting, and a pressed key
\* ended the wait with program_counter still at 0x202.
C3_Witness ==
    /\ call.op = "set_keys"
    /\ call.pre.wait_for_input
    /\ ~state.wait_for_input
    /\ state.last_opcode = \hF50A
    /\ state.cycle >= 3
    /\ state.program_counter = \h202

\* C4: decrement_timers() sets each timer to max(old value - 1, 0), the one
\* whatever the other is, and changes no other field.
C4_DecrementTimers ==
    [][call'.op = "decrement_timers" =>
          state' = [state EXCEPT !.delay_timer = Max(@ - 1, 0),
                                 !.sound_timer = Max(@ - 1, 0)]]_vars

\* C4 witness: decrement_timers found the sound timer at 0 and the delay timer
\* running, and took one off the delay timer alone.
C4_Witness ==
    /\ call.op = "decrement_timers"
    /\ call.pre.sound_timer = 0
    /\ call.pre.delay_timer > 1
    /\ state.sound_timer = 0
    /\ state.delay_timer = call.pre.delay_timer - 1

\* The timers a tick of machine m sets by FX15 and FX18, before any decay.
TimersSetBy(m) ==
    LET runs == ~m.wait_for_input /\ m.program_counter + 1 < 4096
        w    == IF runs THEN WordAtPc(m) ELSE 0
        vx   == m.registers[(w \div 256) % 16]
    IN  [ delay_timer |-> IF w \div 4096 = 15 /\ w % 256 = \h15
                          THEN vx ELSE m.delay_timer,
          sound_timer |-> IF w \div 4096 = 15 /\ w % 256 = \h18
                          THEN vx ELSE m.sound_timer ]

C6_DecoderProjectsBitRanges ==
    phase = "decoded" =>
        LET w == opcode
            s == opcode_symbols
        IN  /\ s.a = w \div 4096
            /\ s.x = (w \div 256) % 16
            /\ s.y = (w \div 16) % 16
            /\ s.n = w % 16
            /\ s.nn = w % 256
            /\ s.nnn = w % 4096
            /\ w = s.a * 4096 + s.nnn
            /\ s.nnn = s.x * 256 + s.nn
            /\ s.nn = s.y * 16 + s.n
            /\ state = Chip8Init
            /\ fault = "none"

\* C6 witness: 0xABCD decoded to a=0xA, x=0xB, y=0xC, n=0xD, nn=0xCD, nnn=0xBCD.
C6_Witness ==
    /\ phase = "decoded"
    /\ opcode = 43981
    /\ opcode_symbols =
          [a |-> 10, x |-> 11, y |-> 12, n |-> 13, nn |-> 205, nnn |-> 3021]

\* The words 0NNN other than 00E0 and 00EE.
IsSysWord(w) == w \div 4096 = 0 /\ w \notin {224, 238}

\* The words that match no pattern of the instruction table.
IsUnknownWord(w) ==
    LET a == w \div 4096  n == w % 16  nn == w % 256 IN
    \/ a = 5 /\ n # 0
    \/ a = 8 /\ n \in (8..13) \cup {15}
    \/ a = 9 /\ n # 0
    \/ a = 14 /\ nn \notin {158, 161}
    \/ a = 15 /\ nn \notin {7, 10, 21, 24, 30, 41, 51, 85, 101}

\* C7: a fetched word 0NNN other than 00E0 and 00EE fails as the unimplemented
\* SYS instruction, a fetched word matching no pattern fails as an unknown
\* opcode, the two failures differ, neither advances program_counter, and no
\* call does anything once the machine has failed.
C7_UnsupportedWordsFail ==
    [][/\ fault = "none"
       /\ (call'.op = "tick" /\ ~state.wait_for_input
             /\ state.program_counter + 1 < 4096) =>
             /\ IsSysWord(WordAtPc(state)) =>
                   /\ fault' = SYS_NOT_IMPLEMENTED
                   /\ state'.program_counter = state.program_counter
             /\ IsUnknownWord(WordAtPc(state)) =>
                   /\ fault' = NOT_HANDLED
                   /\ state'.program_counter = state.program_counter
             /\ SYS_NOT_IMPLEMENTED # NOT_HANDLED]_vars

\* C7 witness: the word 0x8ABF at 0x200 was fetched and the machine failed on an
\* unknown opcode with program_counter still 0x200.
C7_Witness ==
    /\ call.op = "tick"
    /\ fault = NOT_HANDLED
    /\ state.program_counter = 512
    /\ state.memory[512] = 138
    /\ state.memory[513] = 191

\* C8: the stack pointer counts the CALLs not yet returned from, and a RETURN
\* resumes at the instruction after the last of them (last in, first out), so
\* N nested CALLs and N RETURNs bring stack_pointer back and each caller goes
\* on where it left off.
C8_CallReturnBalanced ==
    [][/\ fault' = "none" => state'.stack_pointer = Len(call_sites')
       /\ (call'.op = "tick" /\ ~state.wait_for_input /\ fault' = "none"
             /\ state.program_counter + 1 < 4096 /\ WordAtPc(state) = 238) =>
             /\ Len(call_sites) > 0
             /\ state'.program_counter = call_sites[Len(call_sites)] + 2
             /\ state'.stack_pointer = state.stack_pointer - 1]_vars

\* C8 witness: 16 nested CALLs (the deepest at 0x23C) and 16 RETURNs later the
\* machine is at 0x202, after the first CALL, with an empty stack.
C8_Witness ==
    /\ call.op = "tick"
    /\ fault = "none"
    /\ state.cycle = 32
    /\ state.stack[15] = 572
    /\ call.pre.stack_pointer = 1
    /\ state.stack_pointer = 0
    /\ state.program_counter = 514

\* C9: stack_pointer is in 0..16 in every state; a CALL at stack_pointer = 16
\* and a RETURN at stack_pointer = 0 fail, and neither changes stack_pointer,
\* the stack or program_counter, nor does anything run after them.
C9_StackPointerInRange ==
    [][/\ fault = "none"
       /\ state'.stack_pointer \in 0..16
       /\ (call'.op = "tick" /\ ~state.wait_for_input
             /\ state.program_counter + 1 < 4096
             /\ \/ WordAtPc(state) \div 4096 = 2 /\ state.stack_pointer = 16
                \/ WordAtPc(state) = 238 /\ state.stack_pointer = 0) =>
             /\ fault' # "none"
             /\ state'.stack_pointer = state.stack_pointer
             /\ state'.stack = state.stack
             /\ state'.program_counter = state.program_counter]_vars

\* C10: loading N <= 4096 - 0x200 bytes on a fresh machine copies byte i to
\* memory[0x200 + i], records rom_size = N and changes no other cell (the 80
\* font bytes at 0x050..0x09F stay), and program_counter stays 0x200.
C10_LoadRomCopiesProgram ==
    [][(call'.op = "load_rom" /\ rom_file.readable
          /\ Len(rom_file.bytes) <= 4096 - 512) =>
          LET N == Len(rom_file.bytes) IN
          /\ state = Chip8Init
          /\ fault' = "none"
          /\ \A i \in 0..4095 :
                state'.memory[i] = IF i >= 512 /\ i < 512 + N
                                   THEN rom_file.bytes[i - 512 + 1]
                                   ELSE state.memory[i]
          /\ \A j \in 0..79 : state'.memory[80 + j] = FONT[j + 1]
          /\ state'.rom_size = N
          /\ state'.program_counter = 512]_vars

\* C10 witness: a program of 4096 - 0x200 = 3584 bytes is loaded up to the last
\* cell of the memory, the font still in place.
C10_Witness ==
    /\ call.op = "load_rom"
    /\ fault = "none"
    /\ state.rom_size = 3584
    /\ state.memory[512] = 18
    /\ state.memory[4094] = 18
    /\ state.memory[4095] = 0
    /\ state.memory[80] = 240
    /\ state.program_counter = 512

\* C11: loading a program longer than 4096 - 0x200 = 3584 bytes is rejected
\* with a recoverable error and leaves the machine uncorrupted: memory,
\* rom_size and every other field are as before the load attempt, and no
\* prefix of the oversized program has been written.
C11_OversizedLoadRejected ==
    [][(call'.op = "load_rom" /\ rom_file.readable
          /\ Len(rom_file.bytes) > 4096 - 512) =>
          /\ state' = state
          /\ fault' # INDEX_OUT_OF_BOUNDS]_vars

\* The step is a tick that fetches and dispatches the word w.
TickExecutes(w) ==
    /\ call'.op = "tick"
    /\ Executes(state)
    /\ WordAtPc(state) = w

\* The cells of the display of machine m that are on.
Lit(m) == {i \in 0..2047 : m.graphics_buffer[i]}

NibbleA(w) == w \div 4096

NibbleX(w) == (w \div 256) % 16

NibbleY(w) == (w \div 16) % 16

NibbleN(w) == w % 16

\* The step is a tick that executes the DXYN the tick before it executed.
SecondDrawInSuccession ==
    /\ call'.op = "tick"
    /\ Executes(state)
    /\ NibbleA(WordAtPc(state)) = 13
    /\ call.op = "tick"
    /\ ~call.pre.wait_for_input
    /\ state.last_opcode = WordAtPc(state)

\* C13 as stated: executing the same DXYN twice in succession returns every
\* display cell to its value before the first draw, for every choice of the
\* operand registers x, y in 0..F and every N.
C13_DrawTwiceRestoresAnyOperands ==
    [][SecondDrawInSuccession =>
          state'.graphics_buffer = call.pre.graphics_buffer]_vars

\* C13 amended: executing the same DXYN twice in succession with x and y both
\* other than F completes and returns every display cell to its value before
\* the first draw, for every N.
C13_DrawTwiceRestores ==
    [][(SecondDrawInSuccession
          /\ NibbleX(WordAtPc(state)) # 15 /\ NibbleY(WordAtPc(state)) # 15) =>
          /\ fault' = "none"
          /\ state'.graphics_buffer = call.pre.graphics_buffer]_vars

\* C13 witness: the glyph of 0 was drawn at (5, 0) on a blank display and then
\* drawn again: the 14 cells it had lit are off again and VF = 1.
C13_Witness ==
    /\ call.op = "tick"
    /\ fault = "none"
    /\ state.last_opcode = \hD015
    /\ state.cycle = 5
    /\ state.registers[0] = 5
    /\ state.index_register = ADDRESS_FONT
    /\ Cardinality(Lit(call.pre)) = 14
    /\ call.pre.graphics_buffer[5]
    /\ Lit(state) = {}
    /\ state.registers[15] = 1

\* Bit col (0 the leftmost) of row row of the sprite at the index register of m.
SpriteBit(m, row, col) ==
    (m.memory[m.index_register + row] \div (2 ^ (7 - col))) % 2 = 1

\* The display cells the DXYN word w draws a set sprite bit onto, on machine m.
DrawnCells(m, w) ==
    {m.registers[NibbleX(w)] + col + (m.registers[NibbleY(w)] + row) * 64 :
        <<row, col>> \in {rc \in (0..(NibbleN(w) - 1)) \X (0..7) :
                            SpriteBit(m, rc[1], rc[2])}}

\* C14: after a DXYN instruction, VF = 1 if and only if at least one set sprite
\* bit was drawn onto a display cell that was on before the draw, and VF = 0
\* otherwise, whatever VF held before and whatever the order of the pixels.
C14_CollisionFlag ==
    [][(call'.op = "tick" /\ Executes(state)
          /\ NibbleA(WordAtPc(state)) = 13 /\ fault' = "none") =>
          state'.registers[15] =
              IF \E i \in DrawnCells(state, WordAtPc(state)) : state.graphics_buffer[i]
              THEN 1 ELSE 0]_vars

\* C15 as stated: after every tick that executes an instruction, the frame flag
\* is true if and only if that instruction changed at least one display cell,
\* and false after every instruction that left the display identical.
C15_UpdateFlagIffDisplayChanged ==
    [][(call'.op = "tick" /\ Executes(state) /\ fault' = "none") =>
          (state'.has_graphics_update <=>
              state'.graphics_buffer # state.graphics_buffer)]_vars

\* C15 amended: after every tick that executes an instruction without failing,
\* the frame flag is true if and only if the instruction was 00E0 or DXYN,
\* whether or not a display cell changed; every other instruction leaves the
\* display as it was and the flag false.
C15_UpdateFlagIffDisplayInstruction ==
    [][(call'.op = "tick" /\ Executes(state) /\ fault' = "none") =>
          LET w == WordAtPc(state) IN
          /\ state'.has_graphics_update <=> (w = \h00E0 \/ NibbleA(w) = 13)
          /\ state'.graphics_buffer # state.graphics_buffer =>
                state'.has_graphics_update]_vars

\* C15 witness: a DXYN with N = 0 was executed: the display is what it was and
\* the flag is true.
C15_Witness ==
    /\ call.op = "tick"
    /\ fault = "none"
    /\ state.last_opcode = \hD010
    /\ state.cycle = 4
    /\ state.graphics_buffer = call.pre.graphics_buffer
    /\ state.has_graphics_update

\* C16: in every state reachable from init and the load of a byte program by
\* any sequence of tick, set_keys and decrement_timers, each of the 16
\* registers, each memory cell, delay_timer and sound_timer is in 0..255.
C16_ByteRange ==
    /\ state.registers \in [0..15 -> 0..255]
    /\ state.memory \in [0..4095 -> 0..255]
    /\ state.delay_timer \in 0..255
    /\ state.sound_timer \in 0..255

\* C16 witness: 0xFF + 3 wrapped to 2 and went to the delay timer, 2 + 0xFF
\* wrapped to 1 with VF = 1, 0xFF << 1 gave 0xFE, 1 - 0xFE wrapped to 3 with
\* VF = 0, and the digits of 254 and then the registers went to memory at 0x300
\* and were read back.
C16_Witness ==
    /\ fault = "none"
    /\ state.last_opcode = \hF265
    /\ state.registers[0] = 3
    /\ state.registers[1] = 254
    /\ state.registers[2] = 4
    /\ state.registers[15] = 0
    /\ state.memory[\h300] = 3
    /\ state.memory[\h301] = 254
    /\ state.memory[\h302] = 4
    /\ state.delay_timer = 1

\* The words the failures of C17 are about: FX33, FX55, FX65, DXYN, EX9E, EXA1.
FailsByRange(w) ==
    \/ NibbleA(w) = 15 /\ w % 256 \in {\h33, \h55, \h65}
    \/ NibbleA(w) = 13
    \/ NibbleA(w) = 14 /\ w % 256 \in {\h9E, \hA1}

\* C17: no instruction partially applies its effects before failing: when FX33,
\* FX55, FX65, DXYN, EX9E or EXA1 fails on an index out of range, then memory,
\* registers, display, stack and program_counter at the failure are the values
\* from before the instruction.
C17_NoPartialEffects ==
    [][(call'.op = "tick" /\ Executes(state) /\ FailsByRange(WordAtPc(state))
          /\ fault' # "none") =>
          /\ state'.memory = state.memory
          /\ state'.registers = state.registers
          /\ state'.graphics_buffer = state.graphics_buffer
          /\ state'.stack = state.stack
          /\ state'.stack_pointer = state.stack_pointer
          /\ state'.program_counter = state.program_counter]_vars

\* C18: a tick executing 8XY7 (SUBN) completes normally and leaves
\* Vx = (Vy - Vx) mod 256 and VF = 1 if Vy > Vx else 0, with program_counter
\* advanced by 2, for all x, y and all register values.
C18_SubnCompletes ==
    [][(call'.op = "tick" /\ Executes(state)
          /\ NibbleA(WordAtPc(state)) = 8 /\ NibbleN(WordAtPc(state)) = 7) =>
          LET vx == state.registers[NibbleX(WordAtPc(state))]
              vy == state.registers[NibbleY(WordAtPc(state))]
          IN  /\ fault' = "none"
              /\ NibbleX(WordAtPc(state)) # 15 =>
                    state'.registers[NibbleX(WordAtPc(state))] = (vy - vx + 256) % 256
              /\ state'.registers[15] = IF vy > vx THEN 1 ELSE 0
              /\ state'.program_counter = state.program_counter + 2]_vars

\* The bits of byte v that are set, and the number with the bits of S set.
BitsOf(v) == {i \in 0..7 : (v \div (2 ^ i)) % 2 = 1}

RECURSIVE Weigh(_)
Weigh(S) ==
    IF S = {} THEN 0
    ELSE LET i == CHOOSE j \in S : TRUE IN (2 ^ i) + Weigh(S \ {i})

\* The reference table of the register instructions: what word w makes of
\* Vx = vx and Vy = vy, as the new Vx and the new VF (old VF vf where the
\* instruction has no flag).
Reference(w, vx, vy, vf) ==
    LET k == NibbleN(w) IN
    IF NibbleA(w) = 6 THEN [vx |-> w % 256, vf |-> vf]
    ELSE IF NibbleA(w) = 7 THEN [vx |-> (vx + (w % 256)) % 256, vf |-> vf]
    ELSE IF k = 0 THEN [vx |-> vy, vf |-> vf]
    ELSE IF k = 1 THEN [vx |-> Weigh(BitsOf(vx) \cup BitsOf(vy)), vf |-> vf]
    ELSE IF k = 2 THEN [vx |-> Weigh(BitsOf(vx) \cap BitsOf(vy)), vf |-> vf]
    ELSE IF k = 3
    THEN [vx |-> Weigh((BitsOf(vx) \cup BitsOf(vy)) \ (BitsOf(vx) \cap BitsOf(vy))),
          vf |-> vf]
    ELSE IF k = 4
    THEN [vx |-> (vx + vy) % 256, vf |-> IF vx + vy > 255 THEN 1 ELSE 0]
    ELSE IF k = 5
    THEN [vx |-> (vx - vy + 256) % 256, vf |-> IF vx > vy THEN 1 ELSE 0]
    ELSE IF k = 6 THEN [vx |-> vx \div 2, vf |-> vx % 2]
    ELSE [vx |-> (vx * 2) % 256, vf |-> vx \div 128]

\* The words of the table: 6XNN, 7XNN, 8XY0..8XY6 and 8XYE.
InReference(w) ==
    \/ NibbleA(w) \in {6, 7}
    \/ NibbleA(w) = 8 /\ NibbleN(w) \in (0..6) \cup {14}

StoreTargets(m, w) ==
    IF NibbleA(w) = 15 /\ w % 256 = \h33
    THEN m.index_register..(m.index_register + 2)
    ELSE IF NibbleA(w) = 15 /\ w % 256 = \h55
    THEN m.index_register..(m.index_register + NibbleX(w))
    ELSE {}

\* C20: program memory is only written by explicit store instructions: a tick
\* executing any instruction other than FX33 and FX55, and every call to
\* set_keys or decrement_timers, leaves all 4096 memory cells unchanged, and
\* FX33 and FX55 change no cell outside the range they target; so the loaded
\* bytes stay in memory unless an FX33 or FX55 targeted them.
C20_MemoryWrittenByStoresOnly ==
    [][/\ call'.op \in {"set_keys", "decrement_timers"} =>
            state'.memory = state.memory
       /\ (call'.op = "tick" /\ ~Executes(state)) =>
            state'.memory = state.memory
       /\ (call'.op = "tick" /\ Executes(state)) =>
            IF StoreTargets(state, WordAtPc(state)) = {}
            THEN state'.memory = state.memory
            ELSE \A i \in (0..4095) \ StoreTargets(state, WordAtPc(state)) :
                    state'.memory[i] = state.memory[i]]_vars

\* C20 witness: after BCD and STORE wrote at 0x300, a READ, the ticks to the
\* end of the program and a set_keys call went by, and the program is in memory
\* as it was loaded.
C20_Witness ==
    /\ call.op = "set_keys"
    /\ Pressed(call.arg) = {7}
    /\ fault = "none"
    /\ state.last_opcode = \hF265
    /\ state.memory[\h300] = 3
    /\ state.memory[\h302] = 4
    /\ \A i \in 1..Len(rom_file.bytes) :
          state.memory[ADDRESS_ROM + i - 1] = rom_file.bytes[i]

\* C21: after a save, any sequence of tick, set_keys and decrement_timers calls
\* followed by a restore makes the machine equal in every field to the machine
\* at the moment of the save; the stored snapshot is altered neither by the
\* later operations nor by the restore (so a second restore yields the same
\* state again); a restore when nothing has been saved leaves the machine as
\* it is.
C21_SaveRestoreRoundTrip ==
    [][/\ (call'.op = "restore_state" /\ saved_at # << >>) =>
              state' = saved_at[1].state
       /\ (call'.op = "restore_state" /\ saved_at = << >>) =>
              state' = state
       /\ call'.op = "save_state" =>
              state' = state /\ saved_state' = << state >>
       /\ call'.op # "save_state" =>
              saved_state' = saved_state /\ saved_at' = saved_at]_vars

\* C21 witness: a restore brought back the machine saved before the program
\* set its timer and drew, after ticks, a set_keys and a decrement_timers call
\* had changed cycle, keys, display and delay timer.
C21_Witness ==
    /\ call.op = "restore_state"
    /\ saved_at # << >>
    /\ state = saved_at[1].state
    /\ saved_state = << state >>
    /\ state.cycle = 1
    /\ call.pre.cycle = 5
    /\ call.pre.delay_timer = 1
    /\ call.pre.graphics_buffer[130]
    /\ Lit(state) = {}
    /\ state.delay_timer = 0
    /\ Pressed(state.keys) = {}

\* C22: after any number k of saves the history buffer of capacity
\* N = MAX_STATES keeps the most recent min(k, N) snapshots in save order (only
\* the oldest are evicted), its length never exceeds the bound by more than
\* the one entry being appended, and its last element is the most recently
\* saved state.
C22_HistoryKeepsMostRecent ==
    LET k    == LastSaved
        kept == IF k <= MAX_STATES THEN k ELSE MAX_STATES
    IN  /\ Len(states) <= MAX_STATES + 1
        /\ Len(states) >= kept
        /\ \A i \in 1..kept : states[Len(states) - kept + i] = k - kept + i

\* C23: at the end of every host-loop iteration the tone is playing if and only
\* if the sound timer of the machine is greater than 0: it is started in the
\* iteration in which the timer becomes positive and stopped in the iteration
\* in which it reaches 0, and nothing else starts or stops it.
C23_TonePlaysWhileSoundTimerRuns ==
    (phase \in {"loaded", "exited"} /\ fault = "none") =>
        (~audio_paused <=> state.sound_timer > 0)

\* C23 witness: the iteration that ticked the 8th instruction took the sound
\* timer from 1 to 0 and stopped the tone that was playing.
C23_Witness ==
    /\ call.op = "iteration"
    /\ fault = "none"
    /\ state.cycle = 8
    /\ call.pre.sound_timer = 1
    /\ ~call.arg.audio_paused
    /\ state.sound_timer = 0
    /\ audio_paused

\* C24: while the machine awaits a key, set_keys resumes execution only for a
\* key that went from released to pressed: keys that are pressed in the new
\* vector but were already pressed in the stored key vector do not end the
\* wait and are not written to the target register.
C24_HeldKeyDoesNotResume ==
    [][(call'.op = "set_keys" /\ state.wait_for_input
          /\ Pressed(call'.arg) \subseteq Pressed(state.keys)) =>
          /\ state'.wait_for_input
          /\ state'.registers = state.registers]_vars

\* C25: with no external decrement_timers calls the timers decay exactly once
\* per 8 calls to tick(): the k-th call decrements them if and only if k is a
\* multiple of 8, ticks made while the machine awaits a key included.
C25_DecayEveryEighthCall ==
    [][(call'.op = "tick" /\ fault' = "none") =>
          LET k   == state.cycle + 1
              set == TimersSetBy(state)
          IN  /\ state'.cycle = k
              /\ state'.delay_timer =
                    IF k % 8 = 0 THEN Max(set.delay_timer - 1, 0) ELSE set.delay_timer
              /\ state'.sound_timer =
                    IF k % 8 = 0 THEN Max(set.sound_timer - 1, 0) ELSE set.sound_timer]_vars

\* C26 as stated: a tick executing RETURN (00EE) with stack_pointer > 0
\* decrements stack_pointer by 1 and leaves program_counter equal to the
\* address stored in the popped stack slot, with no further advance by 2.
C26_ReturnSetsPcToPopped ==
    [][(TickExecutes(\h00EE) /\ state.stack_pointer \in 1..16) =>
          /\ fault' = "none"
          /\ state'.stack_pointer = state.stack_pointer - 1
          /\ state'.program_counter = state.stack[state.stack_pointer - 1]]_vars

\* C26 amended: a tick executing RETURN (00EE) with stack_pointer > 0
\* decrements stack_pointer by 1 and leaves program_counter 2 above the address
\* stored in the popped stack slot: the slot holds the address of the CALL, and
\* RETURN gets the advance by 2 of every instruction but 1NNN, 2NNN and BNNN.
C26_ReturnResumesAfterCall ==
    [][(TickExecutes(\h00EE) /\ state.stack_pointer \in 1..16) =>
          /\ fault' = "none"
          /\ state'.stack_pointer = state.stack_pointer - 1
          /\ state'.stack = state.stack
          /\ state'.program_counter = state.stack[state.stack_pointer - 1] + 2]_vars

\* C26 witness: the RETURN of the third level of four nested CALLs popped the
\* slot with 0x208, the address of the third CALL, and resumed at 0x20A.
C26_Witness ==
    /\ call.op = "tick"
    /\ fault = "none"
    /\ state.last_opcode = \h00EE
    /\ call.pre.stack_pointer = 3
    /\ state.stack_pointer = 2
    /\ state.stack[2] = \h208
    /\ state.stack[3] = \h20C
    /\ state.program_counter = \h20A

\* Word w is one of the six skip instructions.
IsSkip(w) ==
    \/ NibbleA(w) \in {3, 4}
    \/ NibbleA(w) \in {5, 9} /\ NibbleN(w) = 0
    \/ NibbleA(w) = 14 /\ w % 256 \in {\h9E, \hA1}

\* The condition of skip w holds in machine m.
SkipHolds(m, w) ==
    LET vx == m.registers[NibbleX(w)]
        vy == m.registers[NibbleY(w)]
    IN  CASE NibbleA(w) = 3  -> vx = w % 256
          [] NibbleA(w) = 4  -> vx # w % 256
          [] NibbleA(w) = 5  -> vx = vy
          [] NibbleA(w) = 9  -> vx # vy
          [] NibbleA(w) = 14 /\ w % 256 = \h9E -> vx \in 0..15 /\ m.keys[vx]
          [] NibbleA(w) = 14 /\ w % 256 = \hA1 -> vx \in 0..15 /\ ~m.keys[vx]

\* program_counter after the non-return word w, fetched from p, has executed.
PcAfter(m, w) ==
    IF NibbleA(w) \in {1, 2} THEN w % 4096
    ELSE IF NibbleA(w) = 11 THEN m.registers[0] + (w % 4096)
    ELSE IF IsSkip(w) /\ SkipHolds(m, w) THEN m.program_counter + 4
    ELSE m.program_counter + 2

\* The step is a tick that executed an instruction other than RETURN.
TickExecuted ==
    /\ call'.op = "tick"
    /\ Executes(state)
    /\ fault' = "none"
    /\ WordAtPc(state) # \h00EE

FlagOf(m, w) ==
    LET vx == m.registers[NibbleX(w)]
        vy == m.registers[NibbleY(w)]
    IN  CASE NibbleA(w) = 8 /\ NibbleN(w) = 4  -> IF vx + vy > 255 THEN 1 ELSE 0
          [] NibbleA(w) = 8 /\ NibbleN(w) = 5  -> IF vx > vy THEN 1 ELSE 0
          [] NibbleA(w) = 8 /\ NibbleN(w) = 6  -> vx % 2
          [] NibbleA(w) = 8 /\ NibbleN(w) = 14 -> vx \div 128
          [] NibbleA(w) = 15 /\ w % 256 = \h1E ->
                IF m.index_register + vx > \hFFF THEN 1 ELSE 0

\* Word w is 8XY4, 8XY5, 8XY6, 8XYE or FX1E.
ProducesFlag(w) ==
    \/ NibbleA(w) = 8 /\ NibbleN(w) \in {4, 5, 6, 14}
    \/ NibbleA(w) = 15 /\ w % 256 = \h1E

\* C28: after 8XY4, 8XY5, 8XY6, 8XYE and FX1E, VF equals the flag of the
\* instruction (carry, Vx > Vy, low bit, high bit, index overflow) for every
\* x in 0..F, x = F included: the flag write takes precedence over the result.
C28_FlagTakesPrecedence ==
    [][(TickExecuted /\ ProducesFlag(WordAtPc(state))) =>
          state'.registers[15] = FlagOf(state, WordAtPc(state))]_vars

\* index_register after the word w has executed on machine m.
IndexAfter(m, w) ==
    LET vx == m.registers[NibbleX(w)] IN
    IF NibbleA(w) = 10 THEN w % 4096
    ELSE IF NibbleA(w) = 15 /\ w % 256 = \h1E THEN (m.index_register + vx) % 4096
    ELSE IF NibbleA(w) = 15 /\ w % 256 = \h29 THEN 80 + 5 * vx
    ELSE m.index_register

\* C29: index_register is in 0..0xFFF in every reachable state; ANNN sets it to
\* NNN, FX1E to (index_register + Vx) mod 0x1000 with VF = 1 iff the sum exceeds
\* 0xFFF, FX29 to 0x050 + 5 * Vx, where for Vx in 0..15 the 5 bytes of glyph Vx
\* start in a fresh machine; no other instruction changes it.
C29_IndexRegisterInRange ==
    /\ [](state.index_register \in 0..\hFFF)
    /\ [][(call'.op = "tick" /\ Executes(state) /\ fault' = "none") =>
            LET w  == WordAtPc(state)
                vx == state.registers[NibbleX(w)]
            IN  /\ state'.index_register = IndexAfter(state, w)
                /\ (NibbleA(w) = 15 /\ w % 256 = \h1E) =>
                      state'.registers[15] =
                         IF state.index_register + vx > \hFFF THEN 1 ELSE 0
                /\ (NibbleA(w) = 15 /\ w % 256 = \h29 /\ vx \in 0..15) =>
                      \A j \in 0..4 :
                         Chip8Init.memory[state'.index_register + j]
                            = FONT[5 * vx + j + 1]]_vars

\* C29 witness: index_register went 0xFFF + 0xFF -> 0x0FE with VF = 1, on to
\* 0x1FD with VF = 0, 0xFFE + 1 -> 0xFFF with VF = 0, 0xFFE + VF (2) -> 0 with
\* VF = 1, then to the glyphs of 0xFF and F, and is now at glyph 0.
C29_Witness ==
    /\ call.op = "tick"
    /\ fault = "none"
    /\ rom_file.bytes = Bytes(RomIndex)
    /\ state.last_opcode = \hFB29
    /\ state.cycle = 15
    /\ state.index_register = ADDRESS_FONT
    /\ state.registers[15] = 1
    /\ state.registers[0] = \hFF
    /\ state.registers[10] = 15

\* C30 as stated: whenever tick() is called with program_counter + 1 >= 4096 it
\* fails with an out-of-bounds error and executes no instruction, and
\* program_counter is never reduced modulo 4096.
C30_FetchPastEndAlwaysFails ==
    [][(call'.op = "tick" /\ state.program_counter + 1 >= 4096) =>
          /\ fault' = INDEX_OUT_OF_BOUNDS
          /\ state' = [state EXCEPT !.cycle = @ + 1,
                                    !.has_graphics_update = FALSE]]_vars

\* C30 amended: whenever tick() is called with program_counter + 1 >= 4096 on a
\* machine that does not wait for a key, it fails with an out-of-bounds error
\* and executes no instruction (only the cycle counter and the frame flag
\* differ); while the machine waits for a key, tick() does not fetch and does
\* not fail.  program_counter is never reduced modulo 4096: BNNN leaves
\* V0 + NNN, a failed or skipped fetch leaves it as it was.
C30_FetchPastEndFails ==
    [][(call'.op = "tick" /\ state.program_counter + 1 >= 4096) =>
          IF state.wait_for_input
          THEN /\ fault' = "none"
               /\ state' = [state EXCEPT !.cycle = @ + 1]
          ELSE /\ fault' = INDEX_OUT_OF_BOUNDS
               /\ state' = [state EXCEPT !.cycle = @ + 1,
                                         !.has_graphics_update = FALSE]]_vars

\* C30 witness: the program ran off the last word of the memory, a LOAD at
\* 0xFFE, and the tick called with program_counter = 0x1000 failed.
C30_Witness ==
    /\ call.op = "tick"
    /\ fault = INDEX_OUT_OF_BOUNDS
    /\ rom_file.bytes = Bytes(RomEnd(\h6A01))
    /\ call.pre.program_counter = \h1000
    /\ state.program_counter = \h1000
    /\ state.last_opcode = \h6A01
    /\ state.registers[10] = 1
    /\ state.cycle = 3

\* The display cells DXYN word w toggles on machine m when the coordinates wrap
\* around both screen edges: column (Vx + col) mod 64, row (Vy + row) mod 32.
WrappedCells(m, w) ==
    {((m.registers[NibbleX(w)] + col) % 64)
        + ((m.registers[NibbleY(w)] + row) % 32) * 64 :
        <<row, col>> \in {rc \in (0..(NibbleN(w) - 1)) \X (0..7) :
                            SpriteBit(m, rc[1], rc[2])}}

\* C31: a DXYN whose sprite bytes lie in the memory completes for all Vx, Vy and
\* toggles exactly the display cells at column (Vx + col) mod 64 and row
\* (Vy + row) mod 32 whose sprite bit is set; every other cell is unchanged, so
\* no pixel spills into the following display row.
C31_DrawWrapsAroundEdges ==
    [][(call'.op = "tick" /\ Executes(state)
          /\ NibbleA(WordAtPc(state)) = 13
          /\ state.index_register + NibbleN(WordAtPc(state)) <= 4096) =>
          /\ fault' = "none"
          /\ state'.graphics_buffer =
                [i \in 0..2047 |->
                    state.graphics_buffer[i]
                       # (i \in WrappedCells(state, WordAtPc(state)))]]_vars

\* C32: when the machine is about to execute CXNN, the values Vx can hold after
\* the tick are exactly { r & NN : r in 0..255 }: every byte from 0 through 255
\* is a possible draw, so with NN = 0xFF the result 0xFF is possible, and no
\* result has a bit set that is clear in NN.
C32_RandomCoversEveryByte ==
    (phase = "loaded" /\ fault = "none" /\ Executes(state)
       /\ NibbleA(WordAtPc(state)) = 12) =>
       {r.m.registers[NibbleX(WordAtPc(state))] : r \in tick(state)}
          = {BitAnd(r, WordAtPc(state) % 256) : r \in 0..255}

\* C33: a tick executing FX33 with index_register = i and i + 2 < 4096
\* completes and leaves in memory[i], memory[i+1], memory[i+2] digits h, t, o,
\* each in 0..9, with 100*h + 10*t + o = Vx; no other memory cell, no register
\* and not index_register changes.
C33_BcdDigits ==
    [][(call'.op = "tick" /\ Executes(state)
          /\ NibbleA(WordAtPc(state)) = 15 /\ WordAtPc(state) % 256 = \h33
          /\ state.index_register + 2 < 4096) =>
          LET i  == state.index_register
              vx == state.registers[NibbleX(WordAtPc(state))]
              h  == state'.memory[i]
              t  == state'.memory[i + 1]
              o  == state'.memory[i + 2]
          IN  /\ fault' = "none"
              /\ {h, t, o} \subseteq 0..9
              /\ 100 * h + 10 * t + o = vx
              /\ state'.memory =
                    [state.memory EXCEPT ![i] = h, ![i + 1] = t, ![i + 2] = o]
              /\ state'.registers = state.registers
              /\ state'.index_register = state.index_register]_vars

\* C33 witness: FX33 of 0xFF with index_register = 0xFFD wrote 2, 5, 5 into the
\* last three cells of the memory.
C33_Witness ==
    /\ call.op = "tick"
    /\ fault = "none"
    /\ state.last_opcode = \hF133
    /\ state.registers[1] = \hFF
    /\ state.index_register = \hFFD
    /\ state.memory[\hFFD] = 2
    /\ state.memory[\hFFE] = 5
    /\ state.memory[\hFFF] = 5
    /\ state.cycle = 3

\* Machine m with each of V0..Vx set to v.
Overwritten(m, x, v) ==
    [m EXCEPT !.registers = [k \in 0..15 |-> IF k <= x THEN v ELSE @[k]]]

\* C34: a tick executing FX55 with I + x < 4096 copies V0..Vx to memory[I..I+x]
\* and changes no other memory cell, no register and not index_register; one
\* executing FX65 copies memory[I..I+x] into V0..Vx and changes no register
\* above Vx, no memory cell and not index_register; so after FX55, whatever
\* V0..Vx are changed to, FX65 with the same x and I brings the stored values
\* back.
C34_StoreReadRoundTrip ==
    [][(call'.op = "tick" /\ Executes(state)
          /\ NibbleA(WordAtPc(state)) = 15
          /\ WordAtPc(state) % 256 \in {\h55, \h65}
          /\ state.index_register + NibbleX(WordAtPc(state)) < 4096) =>
          LET i == state.index_register
              x == NibbleX(WordAtPc(state))
          IN  /\ fault' = "none"
              /\ state'.index_register = i
              /\ WordAtPc(state) % 256 = \h55 =>
                    /\ state'.registers = state.registers
                    /\ state'.memory =
                          [c \in 0..4095 |->
                              IF c \in i..(i + x) THEN state.registers[c - i]
                              ELSE state.memory[c]]
                    /\ \A v \in ByteSamples :
                          \A r \in READ(Overwritten(state', x, v), x) :
                             /\ r.fault = "none"
                             /\ r.m.registers = state.registers
              /\ WordAtPc(state) % 256 = \h65 =>
                    /\ state'.memory = state.memory
                    /\ state'.registers =
                          [k \in 0..15 |->
                              IF k <= x THEN state.memory[i + k]
                              ELSE state.registers[k]]]_vars

\* C34 witness: V0..VF were stored into the last 16 cells of the memory, VF
\* and V3 changed, and FF65 brought 0x99 and 0x44 back; V0..V2 hold what F265
\* read back from 0x300 earlier.
C34_Witness ==
    /\ call.op = "tick"
    /\ fault = "none"
    /\ rom_file.bytes = Bytes(RomStoreRead)
    /\ state.last_opcode = \hFF65
    /\ state.index_register = \hFF0
    /\ state.registers[0] = \h11
    /\ state.registers[1] = \h22
    /\ state.registers[2] = \h33
    /\ state.registers[3] = \h44
    /\ state.registers[15] = \h99
    /\ state.memory[\hFFF] = \h99
    /\ state.memory[\h303] = 0
    /\ state.cycle = 16

\* C35: the debug dump is purely observational in every reachable state of the
\* machine: formatting never fails and changes no field of the machine, also
\* when program_counter is below 0x200 after a JUMP or CALL into reserved memory.
C35_DebugDumpObservational ==
    [][call'.op = "format_debug" => (fault' = "none" /\ state' = state)]_vars

\* C36: an iteration of the host loop that finds the machine waiting for a key
\* and is given a pressed key ends the wait and executes the instruction at the
\* frozen program_counter in that same iteration, whether the emulator runs
\* freely or is paused and stepped with Tick events.
C36_KeyEndsWaitInSameIteration ==
    [][(call'.op = "iteration" /\ phase' = "loaded" /\ state.wait_for_input
          /\ Pressed(call'.arg.keys) # {}
          /\ (~is_paused' \/ call'.arg.event = "Tick")) =>
          /\ fault' = "none"
          /\ state'.registers[state.keyd_register] \in Pressed(call'.arg.keys)
               \/ NibbleX(WordAtPc(state)) = state.keyd_register
          /\ state'.last_opcode = WordAtPc(state)
          /\ state'.wait_for_input => state'.keyd_register # state.keyd_register]_vars

============================================================================
